---- MODULE Spec2Model ----
(***************************************************************************)
(* USB-monitoring: the request/permission state machine of the server      *)
(* (src/server/app.py, src/server/database/models.py) and the policy       *)
(* client (src/client/monitor.py).                                         *)
(*                                                                         *)
(* Server handlers are modelled at the granularity of one SQL statement    *)
(* per step: every execute_query/execute_update opens its own connection   *)
(* and commits, so a statement is atomic and a handler is not.             *)
(***************************************************************************)
EXTENDS Integers, Sequences, FiniteSets, Bags, TLC

\* ---------------------------------------------------------------- universe
Users   == {"alice", "bob"}
Devices == {"dev1"}
None    == "None"

\* handler slots: "c" serves the HTTP calls of the policy client,
\* "a" and "b" serve the administrator and any other caller
Slots    == {"c", "a", "b"}
EnvSlots == {"a", "b"}

Nodes   == {"sdb1", "sdc1"}

\* ------------------------------------------------------------------ bounds
MaxRequests == 2
MaxClock    == 2
MaxEvents   == 2
\* server_config['retry_attempts'] of the client's config.yaml (the default is 3)
RetryAttempts == 2

\* --------------------------------------------------------------- constants
STATUS_PENDING  == "pending"
STATUS_APPROVED == "approved"
STATUS_DENIED   == "denied"

\* max_attempts of websocket_thread
MaxAttempts   == 5

AdminRoom   == <<"admin", "">>

\* one room for the events of every user
UserRoom_shared(u) == <<"user", "alice">>

UserRoom(u) == <<"user", u>>

VARIABLES
    \* ---- server
    users,        \* usernames that have a row in table users
    devices,      \* (vid, pid, serial) triples that have a row in table devices
    permissions,  \* rows of table permissions: [id, user, device, granted]
    requests,     \* rows of table requests, the id is the index
    clock,        \* datetime.now() as seen by update_status
    h,            \* per slot: the running handler, its position and locals
    out,          \* what the last step put out: the socketio.emit and the HTTP
                  \* answer of a handler, the policy main() has logged
    \* ---- policy client
    cresp,        \* the HTTP answer the client is about to read
    present,      \* block device nodes that exist
    nevents,      \* number of udev events main() has consumed
    ev,           \* the event-consumer thread: position and locals of main()
    pending_requests,  \* _pending_requests: device_key -> request id
    pending_devices,   \* _pending_devices, in insertion order
    inbox,        \* push events received and not yet dispatched
    received,     \* every push event the client has received so far
    ws,           \* the socketio thread: position and locals of the push handler
    conn,         \* websocket_thread and the connection
    rooms,        \* user rooms the client's connection has joined (server side)
    mounts,       \* mount_device calls so far
    \* ---- crypto package
    cipher        \* the cipher object under test: its key, and the data of the
                  \* last encrypt and decrypt calls

serverVars == <<users, devices, permissions, requests, clock, h, out>>
clientVars == <<cresp, present, nevents, ev, pending_requests, pending_devices,
                inbox, received, ws, conn, rooms, mounts>>
vars == <<serverVars, clientVars, cipher>>

\* ------------------------------------------------------------------ tables
ReqIds == 1..Len(requests)

PermRows(u, d) == {p \in permissions : p.user = u /\ p.device = d}

\* permissions.id INTEGER PRIMARY KEY: the id of the next inserted row, one that
\* no row of the table has (only the distinctness of ids is kept)
FreshPermId ==
    CHOOSE i \in 1..(Cardinality(permissions) + 1) : \A p \in permissions : p.id # i

\* a check_permission that reports any row of the pair as a grant
check_permission_anyrow(u, d) == IF PermRows(u, d) = {} THEN None ELSE "True"

\* Permission.check_permission: True / False / None
check_permission(u, d) ==
    IF PermRows(u, d) = {} THEN None
    ELSE IF \E p \in PermRows(u, d) : p.granted THEN "True" ELSE "False"

\* Request.check_existing: the newest pending row of the pair, 0 if none
PendingIds(u, d) ==
    {i \in ReqIds : requests[i].user = u /\ requests[i].device = d
                    /\ requests[i].status = STATUS_PENDING}

Max(S) == CHOOSE x \in S : \A y \in S : y <= x

\* a check_existing that never finds the pending row
check_existing_blind(u, d) == 0

check_existing(u, d) ==
    IF PendingIds(u, d) = {} THEN 0 ELSE Max(PendingIds(u, d))

\* an update_status that writes the status and forgets processed_at
update_status_nostamp(reqs, id, status, now) ==
    IF id \in 1..Len(reqs)
    THEN [reqs EXCEPT ![id] = [@ EXCEPT !.status = status]]
    ELSE reqs

\* Request.update_status: UPDATE requests SET status, processed_at WHERE id
update_status(reqs, id, status, now) ==
    IF id \in 1..Len(reqs)
    THEN [reqs EXCEPT ![id] = [@ EXCEPT !.status = status, !.processed_at = now]]
    ELSE reqs

\* ----------------------------------------------------------------- outputs
NoEvent == [event |-> None, room |-> AdminRoom, request_id |-> 0, username |-> None]
NoReply == [slot |-> None, op |-> None, code |-> 0, status |-> "", request_id |-> 0]
NoPolicy == [policy |-> None, attempt |-> 0, key |-> <<>>, node |-> None]
NoOut   == [emit |-> NoEvent, reply |-> NoReply, policy |-> NoPolicy]

Event(event, room, id, u) ==
    [event |-> event, room |-> room, request_id |-> id, username |-> u]

Reply(s, code, status, id) ==
    [slot |-> s, op |-> h[s].op, code |-> code, status |-> status, request_id |-> id]

\* socketio.emit(.., room=..): the client receives what is sent to a room it joined
Push(e) == [event |-> e.event, request_id |-> e.request_id, username |-> e.username]

Deliver(e) ==
    IF e.event # None /\ e.room[1] = "user" /\ e.room[2] \in rooms
    THEN /\ inbox' = Append(inbox, Push(e))
         /\ received' = received \cup {Push(e)}
    ELSE UNCHANGED <<inbox, received>>

\* ---------------------------------------------------------------- handlers
Idle == [pc |-> "idle", op |-> None, user |-> None, device |-> None, id |-> 0,
         granted |-> TRUE, existing |-> FALSE, pending0 |-> {}, terminal0 |-> FALSE]

\* the handler of slot s emits e (or nothing) and returns with answer r
Return(s, e, r) ==
    /\ h' = [h EXCEPT ![s] = Idle]
    /\ UNCHANGED cipher
    /\ out' = [NoOut EXCEPT !.emit = e, !.reply = r]
    /\ cresp' = IF s = "c" THEN r ELSE cresp
    /\ Deliver(e)

\* the handler of slot s moves on to position pc
Goto(s, pc) ==
    /\ h' = [h EXCEPT ![s].pc = pc]
    /\ UNCHANGED cipher
    /\ out' = NoOut
    /\ UNCHANGED <<cresp, inbox, received>>

\* first statement of the body, after the get_or_create prologue
Body(op) ==
    CASE op = "check_device"    -> "cd_check"
      [] op = "create_request"  -> "cr_existing"
      [] op = "add_user_device" -> "sp_select"

\* a call with username and device in the body: check_device, create_request
\* (pending0 remembers the pending rows of the pair when the call arrives)
BeginCall(s, op, u, d) ==
    /\ h[s].pc = "idle"
    /\ h' = [h EXCEPT ![s] = [Idle EXCEPT !.pc = "goc_user", !.op = op,
                                           !.user = u, !.device = d,
                                           !.pending0 = PendingIds(u, d)]]
    /\ UNCHANGED cipher
    /\ out' = NoOut
    /\ UNCHANGED <<users, devices, permissions, requests, clock>>

\* approve / deny without the test of the admin session
BeginAdminCall_open(s, op, id, admin) ==
    /\ h[s].pc = "idle"
    /\ h' = [h EXCEPT ![s] = [Idle EXCEPT !.pc = "rq_get", !.op = op, !.id = id,
                 !.terminal0 = (id \in ReqIds /\ requests[id].status # STATUS_PENDING)]]
    /\ UNCHANGED cipher
    /\ out' = NoOut
    /\ UNCHANGED <<users, devices, permissions, requests, clock>>

\* approve_request / deny_request: require_admin comes first
\* (terminal0 remembers whether the request was terminal when the call arrives)
BeginAdminCall(s, op, id, admin) ==
    /\ h[s].pc = "idle"
    /\ IF admin
       THEN /\ h' = [h EXCEPT ![s] = [Idle EXCEPT !.pc = "rq_get", !.op = op, !.id = id,
                        !.terminal0 = (id \in ReqIds /\ requests[id].status # STATUS_PENDING)]]
            /\ UNCHANGED cipher
            /\ out' = NoOut
       ELSE /\ h' = h
            /\ UNCHANGED cipher
            /\ out' = [NoOut EXCEPT !.reply = [Reply(s, 401, "", 0) EXCEPT !.op = op]]
    /\ UNCHANGED <<users, devices, permissions, requests, clock>>

\* add_user_device / remove_user_device: require_admin comes first
BeginDeviceCall(s, op, u, d, admin) ==
    /\ h[s].pc = "idle"
    /\ IF admin
       THEN /\ h' = [h EXCEPT ![s] = [Idle EXCEPT !.pc = "ud_user", !.op = op,
                                               !.user = u, !.device = d]]
            /\ UNCHANGED cipher
            /\ out' = NoOut
       ELSE /\ h' = h
            /\ UNCHANGED cipher
            /\ out' = [NoOut EXCEPT !.reply = [Reply(s, 401, "", 0) EXCEPT !.op = op]]
    /\ UNCHANGED <<users, devices, permissions, requests, clock>>

\* User.get_or_create: SELECT by username
GocUser(s) ==
    /\ h[s].pc = "goc_user"
    /\ Goto(s, IF h[s].user \in users THEN "goc_device" ELSE "ins_user")
    /\ UNCHANGED <<users, devices, permissions, requests, clock>>

\* User.create + get_by_id: the INSERT raises on UNIQUE(username)
InsUser(s) ==
    /\ h[s].pc = "ins_user"
    /\ IF h[s].user \in users
       THEN /\ Return(s, NoEvent, Reply(s, 500, "", 0))
            /\ UNCHANGED users
       ELSE /\ users' = users \cup {h[s].user}
            /\ Goto(s, "goc_device")
    /\ UNCHANGED <<devices, permissions, requests, clock>>

\* Device.get_or_create: SELECT by (vid, pid, serial)
GocDevice(s) ==
    /\ h[s].pc = "goc_device"
    /\ Goto(s, IF h[s].device \in devices THEN Body(h[s].op) ELSE "ins_device")
    /\ UNCHANGED <<users, devices, permissions, requests, clock>>

\* Device.create + get_by_id: the INSERT raises on UNIQUE(vid, pid, serial)
InsDevice(s) ==
    /\ h[s].pc = "ins_device"
    /\ IF h[s].device \in devices
       THEN /\ Return(s, NoEvent, Reply(s, 500, "", 0))
            /\ UNCHANGED devices
       ELSE /\ devices' = devices \cup {h[s].device}
            /\ Goto(s, Body(h[s].op))
    /\ UNCHANGED <<users, permissions, requests, clock>>

\* a check_device that tests the truth of check_permission's value: False and
\* None both fall through to unknown
StatusOf_truthy(permission) == IF permission = "True" THEN "allowed" ELSE "unknown"

\* check_device: the tri-state of check_permission as a status
StatusOf(permission) ==
    CASE permission = "True"  -> "allowed"
      [] permission = "False" -> "denied"
      [] OTHER                -> "unknown"

\* check_device: check_permission and the answer
CdCheck(s) ==
    /\ h[s].pc = "cd_check"
    /\ Return(s, NoEvent,
              Reply(s, 200, StatusOf(check_permission(h[s].user, h[s].device)), 0))
    /\ UNCHANGED <<users, devices, permissions, requests, clock>>

\* create_request: check_existing, answer the existing id
CrExisting(s) ==
    /\ h[s].pc = "cr_existing"
    /\ LET existing_request == check_existing(h[s].user, h[s].device) IN
       IF existing_request # 0
       THEN Return(s, NoEvent, Reply(s, 200, STATUS_PENDING, existing_request))
       ELSE Goto(s, "cr_insert")
    /\ UNCHANGED <<users, devices, permissions, requests, clock>>

\* create_request: Request.create, INSERT with status pending
CrInsert(s) ==
    /\ h[s].pc = "cr_insert"
    /\ Len(requests) < MaxRequests
    /\ requests' = Append(requests, [user |-> h[s].user, device |-> h[s].device,
                                     status |-> STATUS_PENDING, processed_at |-> 0])
    /\ h' = [h EXCEPT ![s].pc = "cr_emit", ![s].id = Len(requests) + 1]
    /\ UNCHANGED cipher
    /\ out' = NoOut
    /\ UNCHANGED <<users, devices, permissions, clock, cresp, inbox, received>>

\* a create_request that answers without telling the administrator
CrEmit_silent(s) ==
    /\ h[s].pc = "cr_emit"
    /\ Return(s, NoEvent, Reply(s, 200, STATUS_PENDING, h[s].id))
    /\ UNCHANGED <<users, devices, permissions, requests, clock>>

\* create_request: get_by_id, emit device_request to the admin room, answer
CrEmit(s) ==
    /\ h[s].pc = "cr_emit"
    /\ Return(s, Event("device_request", AdminRoom, h[s].id, requests[h[s].id].user),
              Reply(s, 200, STATUS_PENDING, h[s].id))
    /\ UNCHANGED <<users, devices, permissions, requests, clock>>

\* an approve_request / deny_request that goes on without the row it looked up
RqGet_unchecked(s) ==
    /\ h[s].pc = "rq_get"
    /\ h' = [h EXCEPT ![s].pc = "rq_update",
                      ![s].user = IF h[s].id \in ReqIds THEN requests[h[s].id].user ELSE None,
                      ![s].device = IF h[s].id \in ReqIds THEN requests[h[s].id].device
                                    ELSE None]
    /\ UNCHANGED cipher
    /\ out' = NoOut
    /\ UNCHANGED <<cresp, inbox, received>>
    /\ UNCHANGED <<users, devices, permissions, requests, clock>>

\* approve_request / deny_request: Request.get_by_id, 404 if absent
RqGet(s) ==
    /\ h[s].pc = "rq_get"
    /\ IF h[s].id \in ReqIds
       THEN /\ h' = [h EXCEPT ![s].pc = "rq_update",
                              ![s].user = requests[h[s].id].user,
                              ![s].device = requests[h[s].id].device]
            /\ UNCHANGED cipher
            /\ out' = NoOut
            /\ UNCHANGED <<cresp, inbox, received>>
       ELSE Return(s, NoEvent, Reply(s, 404, "", 0))
    /\ UNCHANGED <<users, devices, permissions, requests, clock>>

\* Request.approve / Request.deny: the status the call writes
NewStatus(op) == IF op = "approve" THEN STATUS_APPROVED ELSE STATUS_DENIED

\* an approve_request that emits right after the status update, before the
\* permission is written
RqUpdate_emitFirst(s) ==
    /\ h[s].pc = "rq_update"
    /\ clock < MaxClock
    /\ clock' = clock + 1
    /\ requests' = update_status(requests, h[s].id, NewStatus(h[s].op), clock + 1)
    /\ Goto(s, IF h[s].op = "approve" THEN "sp_done" ELSE "dn_emit")
    /\ UNCHANGED <<users, devices, permissions>>

\* Request.approve / Request.deny: unconditional update_status
RqUpdate(s) ==
    /\ h[s].pc = "rq_update"
    /\ clock < MaxClock
    /\ clock' = clock + 1
    /\ requests' = update_status(requests, h[s].id, NewStatus(h[s].op), clock + 1)
    /\ Goto(s, IF h[s].op = "approve" THEN "sp_select" ELSE "dn_emit")
    /\ UNCHANGED <<users, devices, permissions>>

\* Permission.set_permission: SELECT id of the existing row
SpSelect(s) ==
    /\ h[s].pc = "sp_select"
    /\ h' = [h EXCEPT ![s].pc = "sp_write",
                      ![s].existing = (PermRows(h[s].user, h[s].device) # {})]
    /\ UNCHANGED cipher
    /\ out' = NoOut
    /\ UNCHANGED <<users, devices, permissions, requests, clock, cresp, inbox, received>>

\* a set_permission on a table without UNIQUE(user_id, device_id): the INSERT
\* of a handler that saw no row always adds one
SpWrite_unconstrained(s) ==
    /\ h[s].pc = "sp_write"
    /\ LET u == h[s].user
           d == h[s].device
       IN IF h[s].existing
          THEN permissions' = (permissions \ PermRows(u, d))
                      \cup {[p EXCEPT !.granted = h[s].granted] : p \in PermRows(u, d)}
          ELSE permissions' = permissions \cup
                      {[id |-> FreshPermId, user |-> u, device |-> d,
                        granted |-> h[s].granted]}
    /\ Goto(s, "sp_done")
    /\ UNCHANGED <<users, devices, requests, clock>>

\* Permission.set_permission(.., granted): UPDATE the row, or INSERT a new one;
\* the INSERT raises on UNIQUE(user_id, device_id)
SpWrite(s) ==
    /\ h[s].pc = "sp_write"
    /\ LET u == h[s].user
           d == h[s].device
       IN IF h[s].existing
          THEN /\ permissions' = (permissions \ PermRows(u, d))
                      \cup {[p EXCEPT !.granted = h[s].granted] : p \in PermRows(u, d)}
               /\ Goto(s, "sp_done")
          ELSE IF PermRows(u, d) # {}
               THEN /\ Return(s, NoEvent, Reply(s, 500, "", 0))
                    /\ UNCHANGED permissions
               ELSE /\ permissions' = permissions \cup
                            {[id |-> FreshPermId, user |-> u, device |-> d,
                              granted |-> h[s].granted]}
                    /\ Goto(s, "sp_done")
    /\ UNCHANGED <<users, devices, requests, clock>>

\* Permission.set_permission called on its own: it returns after the write
SpReturn(s) ==
    /\ h[s].pc = "sp_done"
    /\ h[s].op = "set_permission"
    /\ Return(s, NoEvent, Reply(s, 200, "", 0))
    /\ UNCHANGED <<users, devices, permissions, requests, clock>>

\* approve_request: emit request_approved to the room of the user, answer
ApEmit(s) ==
    /\ h[s].pc = "sp_done"
    /\ h[s].op = "approve"
    /\ Return(s, Event("request_approved", UserRoom(h[s].user), h[s].id, h[s].user),
              Reply(s, 200, STATUS_APPROVED, 0))
    /\ UNCHANGED <<users, devices, permissions, requests, clock>>

\* a deny_request that also revokes the permission of the request's pair
DnEmit_revoke(s) ==
    /\ h[s].pc = "dn_emit"
    /\ permissions' = permissions \ PermRows(h[s].user, h[s].device)
    /\ Return(s, Event("request_denied", UserRoom(h[s].user), h[s].id, h[s].user),
              Reply(s, 200, STATUS_DENIED, 0))
    /\ UNCHANGED <<users, devices, requests, clock>>

\* deny_request: emit request_denied to the room of the user, answer
DnEmit(s) ==
    /\ h[s].pc = "dn_emit"
    /\ Return(s, Event("request_denied", UserRoom(h[s].user), h[s].id, h[s].user),
              Reply(s, 200, STATUS_DENIED, 0))
    /\ UNCHANGED <<users, devices, permissions, requests, clock>>

\* add_user_device / remove_user_device: User.get_by_username, 404 if absent
UdUser(s) ==
    /\ h[s].pc = "ud_user"
    /\ IF h[s].user \in users
       THEN Goto(s, IF h[s].op = "add_user_device" THEN "goc_device" ELSE "rud_device")
       ELSE Return(s, NoEvent, Reply(s, 404, "", 0))
    /\ UNCHANGED <<users, devices, permissions, requests, clock>>

\* add_user_device: the answer after set_permission
AudDone(s) ==
    /\ h[s].pc = "sp_done"
    /\ h[s].op = "add_user_device"
    /\ Return(s, NoEvent, Reply(s, 200, "success", 0))
    /\ UNCHANGED <<users, devices, permissions, requests, clock>>

\* remove_user_device: Device.get_by_identifiers, 404 if absent
RudDevice(s) ==
    /\ h[s].pc = "rud_device"
    /\ IF h[s].device \in devices
       THEN Goto(s, "rud_delete")
       ELSE Return(s, NoEvent, Reply(s, 404, "", 0))
    /\ UNCHANGED <<users, devices, permissions, requests, clock>>

\* remove_user_device: Permission.remove_permission, DELETE, and the answer
RudDelete(s) ==
    /\ h[s].pc = "rud_delete"
    /\ permissions' = permissions \ PermRows(h[s].user, h[s].device)
    /\ Return(s, NoEvent, Reply(s, 200, "success", 0))
    /\ UNCHANGED <<users, devices, requests, clock>>

\* any step of the handler running in slot s
HandlerStep(s) ==
    \/ GocUser(s) \/ InsUser(s) \/ GocDevice(s) \/ InsDevice(s)
    \/ CdCheck(s)
    \/ CrExisting(s) \/ CrInsert(s) \/ CrEmit(s)
    \/ RqGet(s) \/ RqUpdate(s) \/ SpSelect(s) \/ SpWrite(s) \/ SpReturn(s)
    \/ ApEmit(s) \/ DnEmit(s)
    \/ UdUser(s) \/ AudDone(s) \/ RudDevice(s) \/ RudDelete(s)

\* ------------------------------------------------- callers other than the client
EnvCheckDevice(s) ==
    /\ \E u \in Users, d \in Devices : BeginCall(s, "check_device", u, d)
    /\ UNCHANGED <<cresp, inbox, received>>
EnvCreateRequest(s) ==
    /\ \E u \in Users, d \in Devices : BeginCall(s, "create_request", u, d)
    /\ UNCHANGED <<cresp, inbox, received>>
EnvApprove(s) ==
    /\ \E id \in 1..MaxRequests + 1, admin \in BOOLEAN : BeginAdminCall(s, "approve", id, admin)
    /\ UNCHANGED <<cresp, inbox, received>>
EnvDeny(s) ==
    /\ \E id \in 1..MaxRequests + 1, admin \in BOOLEAN : BeginAdminCall(s, "deny", id, admin)
    /\ UNCHANGED <<cresp, inbox, received>>
EnvAddUserDevice(s) ==
    /\ \E u \in Users, d \in Devices, admin \in BOOLEAN :
            BeginDeviceCall(s, "add_user_device", u, d, admin)
    /\ UNCHANGED <<cresp, inbox, received>>
EnvRemoveUserDevice(s) ==
    /\ \E u \in Users, d \in Devices, admin \in BOOLEAN :
            BeginDeviceCall(s, "remove_user_device", u, d, admin)
    /\ UNCHANGED <<cresp, inbox, received>>

\* the methods of the Permission model called on their own, with either value
\* of granted: set_permission(user, device, granted), remove_permission(user, device)
BeginSetPermission(s, u, d, granted) ==
    /\ h[s].pc = "idle"
    /\ h' = [h EXCEPT ![s] = [Idle EXCEPT !.pc = "sp_select", !.op = "set_permission",
                                           !.user = u, !.device = d, !.granted = granted]]
    /\ UNCHANGED cipher
    /\ out' = NoOut
    /\ UNCHANGED <<users, devices, permissions, requests, clock>>

BeginRemovePermission(s, u, d) ==
    /\ h[s].pc = "idle"
    /\ h' = [h EXCEPT ![s] = [Idle EXCEPT !.pc = "rud_delete", !.op = "remove_permission",
                                           !.user = u, !.device = d]]
    /\ UNCHANGED cipher
    /\ out' = NoOut
    /\ UNCHANGED <<users, devices, permissions, requests, clock>>

EnvSetPermission(s) ==
    /\ \E u \in Users, d \in Devices, granted \in BOOLEAN : BeginSetPermission(s, u, d, granted)
    /\ UNCHANGED <<cresp, inbox, received>>
EnvRemovePermission(s) ==
    /\ \E u \in Users, d \in Devices : BeginRemovePermission(s, u, d)
    /\ UNCHANGED <<cresp, inbox, received>>

\* a call is served by the first free slot
FirstFree(s) == h[s].pc = "idle" /\ (s = "b" => h["a"].pc # "idle")

EnvCall(s) ==
    \/ EnvCheckDevice(s) \/ EnvCreateRequest(s) \/ EnvApprove(s) \/ EnvDeny(s)
    \/ EnvAddUserDevice(s) \/ EnvRemoveUserDevice(s)

\* ------------------------------------------------------ the crypto package
\* A byte is a number of 0..255, a byte string a sequence of bytes, and a 32-bit
\* word the pair <<high 16 bits, low 16 bits>>.
RECURSIVE XorBits(_, _, _)
XorBits(a, b, n) ==
    IF n = 0 THEN 0
    ELSE (((a % 2) + (b % 2)) % 2) + 2 * XorBits(a \div 2, b \div 2, n - 1)

\* a ^ b on 4 bits, tabulated, and on bytes
Xor4 == [a \in 0..15 |-> [b \in 0..15 |-> XorBits(a, b, 4)]]
Xor8(a, b) == 16 * Xor4[a \div 16][b \div 16] + Xor4[a % 16][b % 16]

\* x ^ y and (x + y) & 0xFFFFFFFF on 32-bit words
XorW(x, y) ==
    <<256 * Xor8(x[1] \div 256, y[1] \div 256) + Xor8(x[1] % 256, y[1] % 256),
      256 * Xor8(x[2] \div 256, y[2] \div 256) + Xor8(x[2] % 256, y[2] % 256)>>
AddW(x, y) ==
    <<(x[1] + y[1] + ((x[2] + y[2]) \div 65536)) % 65536, (x[2] + y[2]) % 65536>>

\* struct.unpack('>I', b)[0] of the four bytes b[at+1..at+4], struct.pack('>I', x)
Unpack(b, at) == <<256 * b[at + 1] + b[at + 2], 256 * b[at + 3] + b[at + 4]>>
Pack(x) == <<x[1] \div 256, x[1] % 256, x[2] \div 256, x[2] % 256>>

P_ARRAY_INIT ==
    [i \in 0..17 |-> <<
        <<9279, 27272>>, <<34211, 2259>>, <<4889, 35374>>, <<880, 29508>>,
        <<41993, 14370>>, <<10655, 12752>>, <<2094, 64152>>, <<60494, 27785>>,
        <<17704, 8678>>, <<14544, 4983>>, <<48724, 26319>>, <<13545, 3180>>,
        <<49324, 10679>>, <<51580, 20701>>, <<16260, 54709>>, <<46407, 2327>>,
        <<37398, 54745>>, <<35193, 64283>>
    >>[i + 1]]

\* the sixteen words each S-box is made of, repeated sixteen times
S_BOXES_INIT ==
    [i \in 0..3 |-> [j \in 0..255 |-> <<
    <<
        <<53553, 2982>>, <<39135, 46508>>, <<12285, 29403>>, <<53274, 57271>>,
        <<47329, 45037>>, <<27174, 32406>>, <<47740, 36933>>, <<61740, 32665>>,
        <<9377, 39239>>, <<45969, 27895>>, <<2049, 62178>>, <<34190, 64534>>,
        <<25449, 8408>>, <<29015, 20073>>, <<42072, 65187>>, <<62611, 15742>>
    >>,
    <<
        <<3477, 29839>>, <<29326, 46680>>, <<29067, 52568>>, <<33301, 19182>>,
        <<31572, 42013>>, <<49754, 22965>>, <<39984, 54585>>, <<10994, 24595>>,
        <<50641, 45091>>, <<10336, 34288>>, <<51777, 31000>>, <<47323, 14575>>,
        <<36473, 56496>>, <<24634, 6158>>, <<27806, 3723>>, <<45086, 35390>>
    >>,
    <<
        <<55061, 30657>>, <<48433, 19239>>, <<30895, 12250>>, <<21856, 23648>>,
        <<58965, 9715>>, <<43605, 43924>>, <<22344, 39010>>, <<25576, 5184>>,
        <<21962, 14698>>, <<10923, 4278>>, <<46284, 23604>>, <<4417, 59598>>,
        <<41300, 34479>>, <<31858, 59795>>, <<46062, 5137>>, <<25455, 48170>>
    >>,
    <<
        <<11177, 50525>>, <<29720, 12790>>, <<52828, 15894>>, <<39815, 37662>>,
        <<45014, 47667>>, <<27684, 53084>>, <<31282, 21377>>, <<10389, 34423>>,
        <<15247, 18584>>, <<27467, 47535>>, <<50367, 59419>>, <<26152, 8595>>,
        <<25048, 2508>>, <<64289, 43409>>, <<18556, 44128>>, <<24044, 32818>>
    >>
    >>[i + 1][(j % 16) + 1]]]

\* e, with v computed first: TLC computes the argument of an operator when it
\* is used, which would nest the turns of a loop into one another
After(v, e) == IF v = v THEN e ELSE e

\* _f_function on the S-boxes S
f_function(S, x) ==
    AddW(XorW(AddW(S[0][x[1] \div 256], S[1][x[1] % 256]), S[2][x[2] \div 256]),
         S[3][x[2] % 256])

\* the rounds i..15 of _encrypt_block, swap included
RECURSIVE EncryptRounds(_, _, _, _)
EncryptRounds(c, i, left, right) ==
    IF i = 16 THEN <<left, right>>
    ELSE LET l == XorW(left, c.P[i])
             r == XorW(f_function(c.S, l), right)
         IN After(<<l, r>>, EncryptRounds(c, i + 1, r, l))

\* _encrypt_block: the last swap undone, then P[16] and P[17]
encrypt_block(c, left, right) ==
    LET lr == EncryptRounds(c, 0, left, right)
    IN <<XorW(lr[2], c.P[17]), XorW(lr[1], c.P[16])>>

\* the rounds i..2 of _decrypt_block, swap included
RECURSIVE DecryptRounds(_, _, _, _)
DecryptRounds(c, i, left, right) ==
    IF i = 1 THEN <<left, right>>
    ELSE LET l == XorW(left, c.P[i])
             r == XorW(f_function(c.S, l), right)
         IN After(<<l, r>>, DecryptRounds(c, i - 1, r, l))

\* _decrypt_block: the last swap undone, then P[1] and P[0]
decrypt_block(c, left, right) ==
    LET lr == DecryptRounds(c, 17, left, right)
    IN <<XorW(lr[2], c.P[0]), XorW(lr[1], c.P[1])>>

\* _expand_key, first loop: P[i] ^= the next four bytes of the key, cyclically
KeyWord(key, i) ==
    <<256 * key[((4 * i) % Len(key)) + 1] + key[((4 * i + 1) % Len(key)) + 1],
      256 * key[((4 * i + 2) % Len(key)) + 1] + key[((4 * i + 3) % Len(key)) + 1]>>

\* _expand_key, the n-th encryption of the chained block: the turns 0..8 fill
\* P, the turns 9..520 fill the four S-boxes, each with the tables as they are
ExpandStep(n, c) ==
    LET lr == encrypt_block(c, c.left, c.right)
        box == (n - 9) \div 128
        j == 2 * ((n - 9) % 128)
    IN [P |-> IF n < 9 THEN [c.P EXCEPT ![2 * n] = lr[1], ![2 * n + 1] = lr[2]]
                       ELSE c.P,
        S |-> IF n < 9 THEN c.S
                       ELSE [c.S EXCEPT ![box][j] = lr[1], ![box][j + 1] = lr[2]],
        left |-> lr[1],
        right |-> lr[2]]

\* the turns lo..hi-1, in order
RECURSIVE ExpandLoop(_, _, _)
ExpandLoop(lo, hi, c) ==
    IF hi - lo = 1 THEN ExpandStep(lo, c)
    ELSE LET first == ExpandLoop(lo, (lo + hi) \div 2, c)
         IN After(first, ExpandLoop((lo + hi) \div 2, hi, first))

\* BlowfishCipher.__init__: the tables P and S of the cipher object
expand_key(key) ==
    ExpandLoop(0, 521, [P |-> [i \in 0..17 |-> XorW(P_ARRAY_INIT[i], KeyWord(key, i))],
                        S |-> S_BOXES_INIT,
                        left |-> <<0, 0>>, right |-> <<0, 0>>])

\* _pad_pkcs7 without the padding of a full block
pad_pkcs7_short(data, block_size) ==
    data \o [i \in 1..((block_size - (Len(data) % block_size)) % block_size) |->
                (block_size - (Len(data) % block_size)) % block_size]

pad_pkcs7(data, block_size) ==
    data \o [i \in 1..(block_size - (Len(data) % block_size)) |->
                block_size - (Len(data) % block_size)]

\* a raised ValueError, and a returned byte string
Raised == [ok |-> FALSE, data |-> <<>>]
Returned(data) == [ok |-> TRUE, data |-> data]

\* _unpad_pkcs7 that looks at the last byte only
unpad_pkcs7_lastbyte(data) ==
    IF Len(data) = 0 THEN Raised
    ELSE IF data[Len(data)] > Len(data) \/ data[Len(data)] = 0 THEN Raised
    ELSE Returned(SubSeq(data, 1, Len(data) - data[Len(data)]))

unpad_pkcs7(data) ==
    IF Len(data) = 0 THEN Raised
    ELSE IF data[Len(data)] > Len(data) \/ data[Len(data)] = 0 THEN Raised
    ELSE IF \E i \in 1..data[Len(data)] : data[Len(data) - i + 1] # data[Len(data)]
         THEN Raised
    ELSE Returned(SubSeq(data, 1, Len(data) - data[Len(data)]))

\* the loop of encrypt / decrypt over the 8-byte blocks from offset at on
RECURSIVE EncryptBlocks(_, _, _)
EncryptBlocks(c, b, at) ==
    IF at >= Len(b) THEN <<>>
    ELSE LET lr == encrypt_block(c, Unpack(b, at), Unpack(b, at + 4))
         IN Pack(lr[1]) \o Pack(lr[2]) \o EncryptBlocks(c, b, at + 8)

RECURSIVE DecryptBlocks(_, _, _)
DecryptBlocks(c, b, at) ==
    IF at >= Len(b) THEN <<>>
    ELSE LET lr == decrypt_block(c, Unpack(b, at), Unpack(b, at + 4))
         IN Pack(lr[1]) \o Pack(lr[2]) \o DecryptBlocks(c, b, at + 8)

\* BlowfishCipher.encrypt and BlowfishCipher.decrypt on the tables c
Blowfish_encrypt(c, plaintext) == EncryptBlocks(c, pad_pkcs7(plaintext, 8), 0)

Blowfish_decrypt(c, ciphertext) ==
    IF (Len(ciphertext) % 8) # 0 THEN Raised
    ELSE unpad_pkcs7(DecryptBlocks(c, ciphertext, 0))

\* RC4Cipher._ksa: turn i of the loop on [S, j]
KsaStep(key, i, c) ==
    LET j == (c.j + c.S[i] + key[(i % Len(key)) + 1]) % 256
    IN [S |-> [c.S EXCEPT ![i] = c.S[j], ![j] = c.S[i]], j |-> j]

RECURSIVE KsaLoop(_, _, _, _)
KsaLoop(key, lo, hi, c) ==
    IF hi - lo = 1 THEN KsaStep(key, lo, c)
    ELSE LET first == KsaLoop(key, lo, (lo + hi) \div 2, c)
         IN After(first, KsaLoop(key, (lo + hi) \div 2, hi, first))

\* RC4Cipher.__init__: the S array of the cipher object
ksa(key) == KsaLoop(key, 0, 256, [S |-> [i \in 0..255 |-> i], j |-> 0]).S

\* RC4Cipher._prga: one next() of the generator [S, i, j], the swap done
PrgaNext(g) ==
    LET i == (g.i + 1) % 256
        j == (g.j + g.S[i]) % 256
    IN [S |-> [g.S EXCEPT ![i] = g.S[j], ![j] = g.S[i]], i |-> i, j |-> j]

\* RC4Cipher.encrypt: byte ^ next(keystream) from position at on; the byte the
\* generator yields is S[(S[i] + S[j]) % 256] after the swap
RECURSIVE Rc4Stream(_, _, _)
Rc4Stream(g, b, at) ==
    IF at > Len(b) THEN <<>>
    ELSE LET n == PrgaNext(g)
         IN After(n, <<Xor8(b[at], n.S[(n.S[n.i] + n.S[n.j]) % 256])>>
                     \o Rc4Stream(n, b, at + 1))

\* RC4Cipher.encrypt and RC4Cipher.decrypt on the array S of the object
RC4_encrypt(S, plaintext) == Rc4Stream([S |-> S, i |-> 0, j |-> 0], plaintext, 1)

RC4_decrypt(S, ciphertext) == Returned(RC4_encrypt(S, ciphertext))

\* the keys of the cipher objects: the shortest valid key, the development
\* default of get_encryption_keys, and for the block cipher the longest valid key
BlowfishKeys == {
    <<1, 2, 3, 4>>,
    <<68, 69, 70, 65, 85, 76, 84, 95, 68, 69, 86, 95, 66, 76, 79, 87, 70, 73, 83, 72,
      95, 75, 69, 89, 95, 51, 50, 66, 89, 84, 69, 83>>,
    [i \in 1..56 |-> (37 * i) % 256]}

RC4Keys == {
    <<1, 2, 3, 4, 5>>,
    <<68, 69, 70, 65, 85, 76, 84, 95, 68, 69, 86, 95, 82, 67, 52, 95, 75, 69, 89, 95,
      49, 54, 66>>}

\* the tables of the cipher objects, one per key
BlowfishTables == [key \in BlowfishKeys |-> expand_key(key)]
RC4Tables == [key \in RC4Keys |-> ksa(key)]

\* str.encode('utf-8') of the names of the universe; a device stands for its
\* (vid, pid, serial) triple, and its text here is its serial
encode(name) ==
    CASE name = "alice" -> <<97, 108, 105, 99, 101>>
      [] name = "bob"   -> <<98, 111, 98>>
      [] name = "dev1"  -> <<83, 78, 45, 48, 48, 49>>

\* base64.b64encode(b).decode('ascii'), as character codes
RECURSIVE b64encode(_)
b64encode(b) ==
    IF Len(b) = 0 THEN <<>>
    ELSE LET Char(k) == IF k < 26 THEN 65 + k
                        ELSE IF k < 52 THEN 97 + (k - 26)
                        ELSE IF k < 62 THEN 48 + (k - 52)
                        ELSE IF k = 62 THEN 43 ELSE 47
             b2 == IF Len(b) >= 2 THEN b[2] ELSE 0
             b3 == IF Len(b) >= 3 THEN b[3] ELSE 0
         IN <<Char(b[1] \div 4),
              Char((b[1] % 4) * 16 + (b2 \div 16)),
              IF Len(b) >= 2 THEN Char((b2 % 16) * 4 + (b3 \div 64)) ELSE 61,
              IF Len(b) >= 3 THEN Char(b3 % 64) ELSE 61>>
            \o (IF Len(b) > 3 THEN b64encode(SubSeq(b, 4, Len(b))) ELSE <<>>)

\* encrypt_username that stores the base64 text without its '=' characters
encrypt_username_stripped(key, username) ==
    IF username = <<>> THEN username
    ELSE SelectSeq(b64encode(Blowfish_encrypt(BlowfishTables[key], username)),
                   LAMBDA ch : ch # 61)

\* CryptoManager.encrypt_username and encrypt_serial, on the bytes of the text
encrypt_username(key, username) ==
    IF username = <<>> THEN username
    ELSE b64encode(Blowfish_encrypt(BlowfishTables[key], username))

encrypt_serial(key, serial) ==
    IF serial = <<>> THEN serial
    ELSE b64encode(RC4_encrypt(RC4Tables[key], serial))

\* base64.b64decode(s) of base64.py, validate=False, on character codes: the
\* loop of binascii.a2b_base64 in its default mode. A character outside the
\* alphabet is skipped; '=' ends the data once the quad has two or three
\* characters and enough '=' have been seen; characters left in an unfinished
\* quad at the end raise binascii.Error. st is [quad_pos, leftchar, pads, bin].
RECURSIVE b64decode_from(_, _, _)
b64decode_from(s, at, st) ==
    LET Val(ch) == IF ch >= 65 /\ ch <= 90 THEN ch - 65
                   ELSE IF ch >= 97 /\ ch <= 122 THEN ch - 71
                   ELSE IF ch >= 48 /\ ch <= 57 THEN ch + 4
                   ELSE IF ch = 43 THEN 62
                   ELSE IF ch = 47 THEN 63 ELSE 64
    IN IF at > Len(s)
       THEN IF st.quad_pos # 0 THEN Raised ELSE Returned(st.bin)
       ELSE IF s[at] = 61
       THEN IF st.quad_pos >= 2 /\ st.quad_pos + st.pads + 1 >= 4
            THEN Returned(st.bin)
            ELSE b64decode_from(s, at + 1,
                     IF st.quad_pos >= 2 THEN [st EXCEPT !.pads = @ + 1] ELSE st)
       ELSE IF Val(s[at]) >= 64 THEN b64decode_from(s, at + 1, st)
       ELSE b64decode_from(s, at + 1,
                CASE st.quad_pos = 0 ->
                       [quad_pos |-> 1, leftchar |-> Val(s[at]), pads |-> 0, bin |-> st.bin]
                  [] st.quad_pos = 1 ->
                       [quad_pos |-> 2, leftchar |-> Val(s[at]) % 16, pads |-> 0,
                        bin |-> Append(st.bin, (st.leftchar * 4 + (Val(s[at]) \div 16)) % 256)]
                  [] st.quad_pos = 2 ->
                       [quad_pos |-> 3, leftchar |-> Val(s[at]) % 4, pads |-> 0,
                        bin |-> Append(st.bin, (st.leftchar * 16 + (Val(s[at]) \div 4)) % 256)]
                  [] st.quad_pos = 3 ->
                       [quad_pos |-> 0, leftchar |-> 0, pads |-> 0,
                        bin |-> Append(st.bin, (st.leftchar * 64 + Val(s[at])) % 256)])

\* encrypted.encode('ascii'), which raises for a character above 127, and
\* base64.b64decode of the result
b64decode(s) ==
    IF \E i \in 1..Len(s) : s[i] > 127 THEN Raised
    ELSE b64decode_from(s, 1, [quad_pos |-> 0, leftchar |-> 0, pads |-> 0, bin |-> <<>>])

\* bytes.decode('utf-8'): raises UnicodeDecodeError unless b is well-formed
\* UTF-8 from position at on; the str it returns is kept as its UTF-8 bytes
RECURSIVE utf8_from(_, _)
utf8_from(b, at) ==
    LET Cont(k, lo, hi) == at + k <= Len(b) /\ b[at + k] >= lo /\ b[at + k] <= hi
    IN IF at > Len(b) THEN TRUE
       ELSE IF b[at] <= 127 THEN utf8_from(b, at + 1)
       ELSE IF b[at] >= 194 /\ b[at] <= 223
       THEN Cont(1, 128, 191) /\ utf8_from(b, at + 2)
       ELSE IF b[at] = 224
       THEN Cont(1, 160, 191) /\ Cont(2, 128, 191) /\ utf8_from(b, at + 3)
       ELSE IF b[at] = 237
       THEN Cont(1, 128, 159) /\ Cont(2, 128, 191) /\ utf8_from(b, at + 3)
       ELSE IF b[at] >= 225 /\ b[at] <= 239
       THEN Cont(1, 128, 191) /\ Cont(2, 128, 191) /\ utf8_from(b, at + 3)
       ELSE IF b[at] = 240
       THEN Cont(1, 144, 191) /\ Cont(2, 128, 191) /\ Cont(3, 128, 191)
            /\ utf8_from(b, at + 4)
       ELSE IF b[at] >= 241 /\ b[at] <= 243
       THEN Cont(1, 128, 191) /\ Cont(2, 128, 191) /\ Cont(3, 128, 191)
            /\ utf8_from(b, at + 4)
       ELSE IF b[at] = 244
       THEN Cont(1, 128, 143) /\ Cont(2, 128, 191) /\ Cont(3, 128, 191)
            /\ utf8_from(b, at + 4)
       ELSE FALSE

decode(b) == IF utf8_from(b, 1) THEN Returned(b) ELSE Raised

\* CryptoManager.decrypt_username and decrypt_serial: every exception of the
\* try block becomes the RuntimeError of the except clause
decrypt_username(key, encrypted) ==
    IF encrypted = <<>> THEN Returned(encrypted)
    ELSE LET ciphertext == b64decode(encrypted)
         IN IF ~ciphertext.ok THEN Raised
            ELSE LET plaintext == Blowfish_decrypt(BlowfishTables[key], ciphertext.data)
                 IN IF ~plaintext.ok THEN Raised ELSE decode(plaintext.data)

decrypt_serial(key, encrypted) ==
    IF encrypted = <<>> THEN Returned(encrypted)
    ELSE LET ciphertext == b64decode(encrypted)
         IN IF ~ciphertext.ok THEN Raised
            ELSE LET plaintext == RC4_decrypt(RC4Tables[key], ciphertext.data)
                 IN IF ~plaintext.ok THEN Raised ELSE decode(plaintext.data)

\* CryptoManager.safe_decrypt_username and safe_decrypt_serial: the value
\* returned, try: return decrypt(encrypted) except Exception: return encrypted
safe_decrypt_username(key, encrypted) ==
    IF decrypt_username(key, encrypted).ok
    THEN decrypt_username(key, encrypted).data ELSE encrypted

safe_decrypt_serial(key, encrypted) ==
    IF decrypt_serial(key, encrypted).ok
    THEN decrypt_serial(key, encrypted).data ELSE encrypted

\* self.crypto of the models of Database: Database.__init__ builds User, Device,
\* Permission and Request from db_path alone, crypto_manager keeps its default
\* None: the empty tuple here, a manager m being the tuple <<m>>
DatabaseCrypto == <<>>

\* the text User.create writes into users.username and get_by_username looks
\* for, and the text Device.create writes into devices.serial
username_column(username) ==
    IF DatabaseCrypto # <<>>
    THEN encrypt_username(DatabaseCrypto[1].blowfish_key, encode(username))
    ELSE encode(username)

serial_column(device) ==
    IF DatabaseCrypto # <<>>
    THEN encrypt_serial(DatabaseCrypto[1].rc4_key, encode(device))
    ELSE encode(device)

\* the byte strings handed to encrypt: every string of up to MaxShort bytes
\* over five sample bytes, and strings of the lengths around one and two blocks
MaxShort == 2
LongLengths == {7, 8, 9, 15, 16, 17}
PlainTexts ==
    UNION {[1..n -> {0, 1, 8, 65, 255}] : n \in 0..MaxShort}
    \cup {[i \in 1..n |-> (53 * i + n) % 256] : n \in LongLengths}
    \cup {[i \in 1..n |-> 8] : n \in LongLengths}
    \cup {[i \in 1..n |-> IF i = n THEN 1 ELSE 0] : n \in LongLengths}

NoCipher == [alg |-> None, key |-> <<>>, pc |-> "none", plaintext |-> <<>>,
             ciphertext |-> <<>>, decrypted |-> Raised,
             obj |-> [P |-> <<>>, S |-> <<>>], fresh |-> FALSE]

\* self.P and self.S of BlowfishCipher(key), self.S of RC4Cipher(key): what
\* __init__ leaves in the object
NewObject(alg, key) ==
    IF alg = "blowfish"
    THEN [P |-> BlowfishTables[key].P, S |-> BlowfishTables[key].S]
    ELSE [P |-> <<>>, S |-> RC4Tables[key]]

\* the generator of _prga after n calls of next()
RECURSIVE PrgaRun(_, _)
PrgaRun(g, n) ==
    IF n = 0 THEN g ELSE LET m == PrgaNext(g) IN After(m, PrgaRun(m, n - 1))

\* encrypt with a generator that swaps in self.S itself
ObjectAfter_shared(alg, obj, data) ==
    IF alg = "blowfish" THEN obj
    ELSE [obj EXCEPT !.S = PrgaRun([S |-> obj.S, i |-> 0, j |-> 0], Len(data)).S]

\* self.P and self.S after encrypt(data) or decrypt(data): _encrypt_block,
\* _decrypt_block and _f_function only read self.P and self.S, and _prga swaps
\* in S = self.S.copy()
ObjectAfter(alg, obj, data) == obj

\* BlowfishCipher(key), RC4Cipher(key)
CipherNew ==
    /\ cipher.pc = "none"
    /\ \/ \E key \in BlowfishKeys :
            cipher' = [NoCipher EXCEPT !.alg = "blowfish", !.key = key, !.pc = "ready",
                                       !.obj = NewObject("blowfish", key)]
       \/ \E key \in RC4Keys :
            cipher' = [NoCipher EXCEPT !.alg = "rc4", !.key = key, !.pc = "ready",
                                       !.obj = NewObject("rc4", key)]
    /\ UNCHANGED <<serverVars, clientVars>>

\* cipher.encrypt(plaintext) as the object computes it
ObjectEncrypt(alg, obj, plaintext) ==
    IF alg = "blowfish" THEN Blowfish_encrypt(obj, plaintext)
    ELSE RC4_encrypt(obj.S, plaintext)

\* cipher.encrypt(plaintext)
CipherEncrypt ==
    /\ cipher.pc \in {"ready", "decrypted"}
    /\ \E plaintext \in PlainTexts :
         cipher' = [cipher EXCEPT
                      !.pc = "encrypted",
                      !.plaintext = plaintext,
                      !.ciphertext = ObjectEncrypt(cipher.alg, cipher.obj, plaintext),
                      !.decrypted = Raised,
                      !.obj = ObjectAfter(cipher.alg, cipher.obj, plaintext),
                      !.fresh = FALSE]
    /\ UNCHANGED <<serverVars, clientVars>>

\* cipher.decrypt(ciphertext) of the bytes the last encrypt returned
CipherDecrypt ==
    /\ cipher.pc = "encrypted"
    /\ cipher' = [cipher EXCEPT
                    !.pc = "decrypted",
                    !.decrypted = IF cipher.alg = "blowfish"
                                  THEN Blowfish_decrypt(cipher.obj, cipher.ciphertext)
                                  ELSE RC4_decrypt(cipher.obj.S, cipher.ciphertext),
                    !.obj = ObjectAfter(cipher.alg, cipher.obj, cipher.ciphertext)]
    /\ UNCHANGED <<serverVars, clientVars>>

\* a second BlowfishCipher(key) or RC4Cipher(key) from the key of the first,
\* after the first has encrypted
CipherRenew ==
    /\ cipher.pc = "encrypted"
    /\ cipher' = [cipher EXCEPT !.pc = "renewed", !.fresh = TRUE,
                                !.obj = NewObject(cipher.alg, cipher.key)]
    /\ UNCHANGED <<serverVars, clientVars>>

\* cipher.encrypt(plaintext) once more, of the plaintext of the call before
CipherAgain ==
    /\ cipher.pc \in {"encrypted", "renewed", "again"}
    /\ cipher' = [cipher EXCEPT
                    !.pc = "again",
                    !.ciphertext = ObjectEncrypt(cipher.alg, cipher.obj, cipher.plaintext),
                    !.obj = ObjectAfter(cipher.alg, cipher.obj, cipher.plaintext)]
    /\ UNCHANGED <<serverVars, clientVars>>

\* BlowfishCipher._unpad_pkcs7(data), a static method, on a buffer that need
\* not come from _pad_pkcs7: any of the byte strings followed by an ending
\* that is a padding, is one with a wrong byte, is longer than the buffer or
\* is zero
CipherUnpad ==
    /\ cipher.pc \in {"none", "unpadded"}
    /\ \E head \in PlainTexts,
          tail \in {<<>>, <<0>>, <<1>>, <<2, 2>>, <<1, 2>>, <<2, 1, 2>>, <<3, 3, 3>>,
                    <<3, 2, 3>>, <<2, 3, 3>>, <<4, 4, 4>>, <<9>>, <<255>>} :
         cipher' = [NoCipher EXCEPT !.pc = "unpadded", !.plaintext = head \o tail,
                                    !.decrypted = unpad_pkcs7(head \o tail)]
    /\ UNCHANGED <<serverVars, clientVars>>

\* values of users.username and devices.serial written without encryption,
\* as character codes: alice, bob, SN-001, 1234, dev1, DISK, not_base64!!!
\* and a name with a character above 127
LegacyTexts ==
    {<<97, 108, 105, 99, 101>>,
     <<98, 111, 98>>,
     <<83, 78, 45, 48, 48, 49>>,
     <<49, 50, 51, 52>>,
     <<100, 101, 118, 49>>,
     <<68, 73, 83, 75>>,
     <<110, 111, 116, 95, 98, 97, 115, 101, 54, 52, 33, 33, 33>>,
     <<233>>}

\* the texts handed to the safe decrypt variants: the legacy values, the empty
\* string, what the wrapper made of a name under every key, and such a text
\* cut short by one and by four characters
StoredTexts ==
    LET made == {encrypt_username(key, encode(u)) : key \in BlowfishKeys, u \in Users}
                \cup {encrypt_serial(key, encode(d)) : key \in RC4Keys, d \in Devices}
    IN LegacyTexts \cup {<<>>} \cup made
       \cup {SubSeq(c, 1, Len(c) - 1) : c \in made}
       \cup {SubSeq(c, 1, Len(c) - 4) : c \in made}

\* the names handed to the wrapper, as UTF-8 bytes: the empty string, the names
\* of the universe, 1234, a name of one block and one of two blocks, and a
\* name with a two-byte character
NameTexts ==
    {<<>>, <<195, 169, 118, 101>>,
     <<97, 108, 105, 99, 101>>,
     <<98, 111, 98>>,
     <<83, 78, 45, 48, 48, 49>>,
     <<49, 50, 51, 52>>,
     <<49, 50, 51, 52, 53, 54, 55, 56>>,
     <<117, 115, 98, 45, 115, 116, 105, 99, 107, 45, 48, 48, 48, 48, 49, 54>>}

\* safe_decrypt_username(encrypted) or safe_decrypt_serial(encrypted) of a
\* manager with the given key: plaintext holds the argument, decrypted what
\* the strict variant inside the try block did, ciphertext the value returned
ManagerSafeDecrypt ==
    /\ cipher.pc \in {"none", "safe"}
    /\ \E encrypted \in StoredTexts :
         \/ \E key \in BlowfishKeys :
              cipher' = [NoCipher EXCEPT
                           !.alg = "blowfish", !.key = key, !.pc = "safe",
                           !.plaintext = encrypted,
                           !.decrypted = decrypt_username(key, encrypted),
                           !.ciphertext = safe_decrypt_username(key, encrypted)]
         \/ \E key \in RC4Keys :
              cipher' = [NoCipher EXCEPT
                           !.alg = "rc4", !.key = key, !.pc = "safe",
                           !.plaintext = encrypted,
                           !.decrypted = decrypt_serial(key, encrypted),
                           !.ciphertext = safe_decrypt_serial(key, encrypted)]
    /\ UNCHANGED <<serverVars, clientVars>>

\* encrypt_username(username) or encrypt_serial(serial) of a manager
ManagerEncrypt ==
    /\ cipher.pc \in {"none", "unwrapped"}
    /\ \E text \in NameTexts :
         \/ \E key \in BlowfishKeys :
              cipher' = [NoCipher EXCEPT
                           !.alg = "blowfish", !.key = key, !.pc = "wrapped",
                           !.plaintext = text,
                           !.ciphertext = encrypt_username(key, text)]
         \/ \E key \in RC4Keys :
              cipher' = [NoCipher EXCEPT
                           !.alg = "rc4", !.key = key, !.pc = "wrapped",
                           !.plaintext = text,
                           !.ciphertext = encrypt_serial(key, text)]
    /\ UNCHANGED <<serverVars, clientVars>>

\* decrypt_username or decrypt_serial, by the same manager, of the text its
\* encrypt returned
ManagerDecrypt ==
    /\ cipher.pc = "wrapped"
    /\ cipher' = [cipher EXCEPT
                    !.pc = "unwrapped",
                    !.decrypted = IF cipher.alg = "blowfish"
                                  THEN decrypt_username(cipher.key, cipher.ciphertext)
                                  ELSE decrypt_serial(cipher.key, cipher.ciphertext)]
    /\ UNCHANGED <<serverVars, clientVars>>

\* -------------------------------------------------------------------- init
ServerInit ==
    /\ users = {}
    /\ devices = {}
    /\ permissions = {}
    /\ requests = <<>>
    /\ clock = 0
    /\ h = [s \in Slots |-> Idle]
    /\ out = NoOut

\* stale0 remembers, for the check in progress, whether the request id stored
\* for the key was that of an approved or denied request when the check was sent
EvIdle == [pc |-> "idle", user |-> None, device |-> None, node |-> None,
           attempt |-> 0, result |-> None, stale0 |-> FALSE]
WsIdle == [pc |-> "idle", event |-> None, request_id |-> 0, username |-> None,
           i |-> 0, n |-> 0, key |-> <<>>, node |-> None, match0 |-> <<>>]

ClientInit ==
    /\ cresp = NoReply
    /\ present = {}
    /\ nevents = 0
    /\ ev = EvIdle
    /\ pending_requests = [k \in {} |-> 0]
    /\ pending_devices = <<>>
    /\ inbox = <<>>
    /\ received = {}
    /\ ws = WsIdle
    /\ conn = [pc |-> "connecting", attempt |-> 0, connected |-> FALSE, current_user |-> None]
    /\ rooms = {}
    /\ mounts = <<>>

Init == ServerInit /\ ClientInit /\ cipher = NoCipher

\* ------------------------------------------------------- the policy client
\* device_key = f"{username}:{vid}:{pid}:{serial}"
Key(u, d) == <<u, d>>

HasKey(f, k) == k \in DOMAIN f

\* del d[k] on a dict kept as a function
DelKey(f, k) == [x \in DOMAIN f \ {k} |-> f[x]]

\* d[k] = v on a dict kept as a function
SetKey(f, k, v) == [x \in DOMAIN f \cup {k} |-> IF x = k THEN v ELSE f[x]]

\* _pending_devices[key] = entry: a present key keeps its place, a new one goes last
PutDevice(pd, entry) ==
    IF \E j \in 1..Len(pd) : pd[j].key = entry.key
    THEN [j \in 1..Len(pd) |-> IF pd[j].key = entry.key THEN entry ELSE pd[j]]
    ELSE Append(pd, entry)

\* del _pending_devices[key]
DelDevice(pd, k) == SelectSeq(pd, LAMBDA e : e.key # k)

\* mount_device(device_node), called by main() or by on_request_approved; the
\* record remembers the request id of the push the handler is working on
Mount(node, via, k) ==
    mounts' = Append(mounts, [node |-> node, via |-> via, key |-> k,
                              request_id |-> IF via = "push" THEN ws.request_id ELSE 0])

\* main(): the monitor yields a remove event of a USB block device:
\* unmount_device and notifications, no bookkeeping
EvRemove(n) ==
    /\ ev.pc = "idle"
    /\ nevents < MaxEvents
    /\ n \in present
    /\ present' = present \ {n}
    /\ nevents' = nevents + 1
    /\ UNCHANGED cipher
    /\ out' = NoOut
    /\ UNCHANGED <<users, devices, permissions, requests, clock, h, cresp,
                   ev, pending_requests, pending_devices, inbox, received, ws, conn, rooms, mounts>>

\* main(): the monitor yields an add event of a USB block device with a file
\* system: get_active_user, skip the device when there is no active user
EvAdd(n, d, username) ==
    /\ ev.pc = "idle"
    /\ nevents < MaxEvents
    /\ n \notin present
    /\ present' = present \cup {n}
    /\ nevents' = nevents + 1
    /\ ev' = IF username = None THEN EvIdle
             ELSE [EvIdle EXCEPT !.pc = "check", !.user = username,
                                 !.device = d, !.node = n]
    /\ UNCHANGED cipher
    /\ out' = NoOut
    /\ UNCHANGED <<users, devices, permissions, requests, clock, h, cresp,
                   pending_requests, pending_devices, inbox, received, ws, conn, rooms, mounts>>

\* a retry loop that never gives up
AttemptFailed_forever == ev' = [ev EXCEPT !.pc = "check"]

\* check_device_permission_server: an attempt failed (exception or non-200);
\* after retry_attempts failures the function returns None
AttemptFailed ==
    ev' = IF ev.attempt + 1 < RetryAttempts
          THEN [ev EXCEPT !.pc = "check", !.attempt = @ + 1]
          ELSE [ev EXCEPT !.pc = "policy", !.attempt = @ + 1, !.result = None]

\* check_device_permission_server: requests.post raises before the server is reached
EvCheckError ==
    /\ ev.pc = "check"
    /\ AttemptFailed
    /\ UNCHANGED cipher
    /\ out' = NoOut
    /\ UNCHANGED <<users, devices, permissions, requests, clock, h, cresp, present, nevents, pending_requests, pending_devices, inbox, received, ws, conn, rooms, mounts>>

\* the request id stored for a key is the id of a request the server has
\* approved or denied, and no approve or deny call for it is still running
StoredIsTerminal(k) ==
    /\ HasKey(pending_requests, k)
    /\ pending_requests[k] \in ReqIds
    /\ requests[pending_requests[k]].status # STATUS_PENDING
    /\ \A s \in Slots : h[s].op \in {"approve", "deny"} => h[s].id # pending_requests[k]

\* check_device_permission_server: requests.post reaches /api/devices/check
EvCheckSend ==
    /\ ev.pc = "check"
    /\ BeginCall("c", "check_device", ev.user, ev.device)
    /\ ev' = [ev EXCEPT !.pc = "check_wait",
                        !.stale0 = StoredIsTerminal(Key(ev.user, ev.device))]
    /\ UNCHANGED <<cresp, present, nevents, pending_requests, pending_devices,
                   inbox, received, ws, conn, rooms, mounts>>

\* where main() goes with the status the server answered
AfterStatus(status) ==
    IF status = "unknown" THEN [ev EXCEPT !.pc = "cr_check", !.result = status]
    ELSE [ev EXCEPT !.pc = "policy", !.result = status]

\* check_device_permission_server: the answer; 200 gives the status, and a final
\* status with a stored request id goes on to delete that id
EvCheckRecv ==
    /\ ev.pc = "check_wait"
    /\ h["c"].pc = "idle"
    /\ IF cresp.code = 200
       THEN ev' = IF cresp.status \in {"allowed", "denied"}
                     /\ HasKey(pending_requests, Key(ev.user, ev.device))
                  THEN [ev EXCEPT !.pc = "check_del", !.result = cresp.status]
                  ELSE AfterStatus(cresp.status)
       ELSE AttemptFailed
    /\ cresp' = NoReply
    /\ UNCHANGED cipher
    /\ out' = NoOut
    /\ UNCHANGED <<users, devices, permissions, requests, clock, h, present, nevents, pending_requests, pending_devices, inbox, received, ws, conn, rooms, mounts>>

\* check_device_permission_server: the answer is lost (timeout, broken connection)
EvCheckLost ==
    /\ ev.pc = "check_wait"
    /\ h["c"].pc = "idle"
    /\ AttemptFailed
    /\ cresp' = NoReply
    /\ UNCHANGED cipher
    /\ out' = NoOut
    /\ UNCHANGED <<users, devices, permissions, requests, clock, h, present, nevents, pending_requests, pending_devices, inbox, received, ws, conn, rooms, mounts>>

\* check_device_permission_server: del _pending_requests[device_key]; the key
\* may have been deleted by the socketio thread since the test: KeyError ends main()
EvCheckDel ==
    /\ ev.pc = "check_del"
    /\ IF HasKey(pending_requests, Key(ev.user, ev.device))
       THEN /\ pending_requests' = DelKey(pending_requests, Key(ev.user, ev.device))
            /\ ev' = AfterStatus(ev.result)
       ELSE /\ ev' = [ev EXCEPT !.pc = "crashed"]
            /\ UNCHANGED pending_requests
    /\ UNCHANGED cipher
    /\ out' = NoOut
    /\ UNCHANGED <<users, devices, permissions, requests, clock, h, cresp, present, nevents, pending_devices, inbox, received, ws, conn, rooms, mounts>>

\* a create_device_request that does not look into _pending_requests
EvCrCheck_always ==
    /\ ev.pc = "cr_check"
    /\ ev' = [ev EXCEPT !.pc = "cr_send"]
    /\ UNCHANGED cipher
    /\ out' = NoOut
    /\ UNCHANGED <<users, devices, permissions, requests, clock, h, cresp, present, nevents, pending_requests, pending_devices, inbox, received, ws, conn, rooms, mounts>>

\* create_device_request: if device_key in _pending_requests
EvCrCheck ==
    /\ ev.pc = "cr_check"
    /\ ev' = [ev EXCEPT !.pc = IF HasKey(pending_requests, Key(ev.user, ev.device))
                               THEN "cr_reuse" ELSE "cr_send"]
    /\ UNCHANGED cipher
    /\ out' = NoOut
    /\ UNCHANGED <<users, devices, permissions, requests, clock, h, cresp, present, nevents, pending_requests, pending_devices, inbox, received, ws, conn, rooms, mounts>>

\* create_device_request: return _pending_requests[device_key]; KeyError ends main()
EvCrReuse ==
    /\ ev.pc = "cr_reuse"
    /\ ev' = [ev EXCEPT !.pc = IF HasKey(pending_requests, Key(ev.user, ev.device))
                               THEN "policy" ELSE "crashed"]
    /\ UNCHANGED cipher
    /\ out' = NoOut
    /\ UNCHANGED <<users, devices, permissions, requests, clock, h, cresp, present, nevents, pending_requests, pending_devices, inbox, received, ws, conn, rooms, mounts>>

\* create_device_request: requests.post raises before the server is reached
EvCrError ==
    /\ ev.pc = "cr_send"
    /\ ev' = [ev EXCEPT !.pc = "policy"]
    /\ UNCHANGED cipher
    /\ out' = NoOut
    /\ UNCHANGED <<users, devices, permissions, requests, clock, h, cresp, present, nevents, pending_requests, pending_devices, inbox, received, ws, conn, rooms, mounts>>

\* create_device_request: requests.post reaches /api/requests
EvCrSend ==
    /\ ev.pc = "cr_send"
    /\ BeginCall("c", "create_request", ev.user, ev.device)
    /\ ev' = [ev EXCEPT !.pc = "cr_wait"]
    /\ UNCHANGED <<cresp, present, nevents, pending_requests, pending_devices,
                   inbox, received, ws, conn, rooms, mounts>>

\* create_device_request: the answer; 200 stores the request id
EvCrRecv ==
    /\ ev.pc = "cr_wait"
    /\ h["c"].pc = "idle"
    /\ pending_requests' = IF cresp.code = 200
                           THEN SetKey(pending_requests, Key(ev.user, ev.device),
                                       cresp.request_id)
                           ELSE pending_requests
    /\ ev' = [ev EXCEPT !.pc = "policy"]
    /\ cresp' = NoReply
    /\ UNCHANGED cipher
    /\ out' = NoOut
    /\ UNCHANGED <<users, devices, permissions, requests, clock, h, present, nevents, pending_devices, inbox, received, ws, conn, rooms, mounts>>

\* create_device_request: the answer is lost
EvCrLost ==
    /\ ev.pc = "cr_wait"
    /\ h["c"].pc = "idle"
    /\ ev' = [ev EXCEPT !.pc = "policy"]
    /\ cresp' = NoReply
    /\ UNCHANGED cipher
    /\ out' = NoOut
    /\ UNCHANGED <<users, devices, permissions, requests, clock, h, present, nevents, pending_requests, pending_devices, inbox, received, ws, conn, rooms, mounts>>

\* a check_device_policy that lets the device in when the server gave no answer
Policy_failopen(server_result) == IF server_result # None THEN server_result ELSE "allowed"

\* a check_device_policy that lets a device without a decision in
Policy_unknownAllowed(server_result) ==
    IF server_result = None THEN "deny"
    ELSE IF server_result = "unknown" THEN "allowed" ELSE server_result

\* check_device_policy: the policy it returns for a server result
Policy(server_result) == IF server_result # None THEN server_result ELSE "deny"

\* the module global _websocket_client as main() sees it: websocket_thread
\* assigns a local of the same name, the global keeps its initial value
GlobalWebsocketClient == None

\* main(): the branch on the policy
EvPolicy ==
    /\ ev.pc = "policy"
    /\ LET policy == Policy(ev.result)
           k == Key(ev.user, ev.device)
       IN CASE policy = "allowed" ->
                 /\ Mount(ev.node, "attach", k)
                 /\ UNCHANGED <<pending_devices, conn, rooms>>
            [] policy = "denied" ->
                 UNCHANGED <<pending_devices, conn, rooms, mounts>>
            [] OTHER ->
                 /\ pending_devices' = PutDevice(pending_devices,
                        [key |-> k, username |-> ev.user, device_node |-> ev.node])
                 /\ conn' = IF GlobalWebsocketClient # None /\ conn.connected
                            THEN [conn EXCEPT !.current_user = ev.user] ELSE conn
                 /\ rooms' = IF GlobalWebsocketClient # None /\ conn.connected
                             THEN rooms \cup {ev.user} ELSE rooms
                 /\ UNCHANGED mounts
    /\ ev' = EvIdle
    /\ UNCHANGED cipher
    /\ out' = [NoOut EXCEPT !.policy = [policy |-> Policy(ev.result), attempt |-> ev.attempt,
                                         key |-> Key(ev.user, ev.device), node |-> ev.node]]
    /\ UNCHANGED <<users, devices, permissions, requests, clock, h, cresp, present, nevents, pending_requests, inbox, received, ws>>

\* the entries of the pending-device table a push event matches: same username,
\* and the request id stored for the entry's key is the one of the event
MatchingEntries(push) ==
    SelectSeq(pending_devices,
              LAMBDA e : /\ e.username = push.username
                         /\ e.key \in DOMAIN pending_requests
                         /\ pending_requests[e.key] = push.request_id)

\* the socketio thread picks the next push event: the handler starts and
\* creates the iterator over _pending_devices.items()
WsTake ==
    /\ ws.pc = "idle"
    /\ inbox # <<>>
    /\ inbox' = Tail(inbox)
    /\ ws' = [WsIdle EXCEPT !.pc = "iter", !.event = Head(inbox).event,
                            !.request_id = Head(inbox).request_id,
                            !.username = Head(inbox).username,
                            !.i = 1, !.n = Len(pending_devices),
                            !.match0 = MatchingEntries(Head(inbox))]
    /\ UNCHANGED cipher
    /\ out' = NoOut
    /\ UNCHANGED <<users, devices, permissions, requests, clock, h, cresp, present, nevents, ev, pending_requests, pending_devices, received, conn, rooms, mounts>>

\* a test that looks at the username only
Matches_anyRequest(entry, username, request_id) == entry.username = username

\* the test of on_request_approved / on_request_denied on one entry
Matches(entry, username, request_id) ==
    /\ entry.username = username
    /\ HasKey(pending_requests, entry.key)
    /\ pending_requests[entry.key] = request_id

\* one turn of the for loop: the iterator raises if the dict changed size
\* (the handler logs and returns), ends the loop, or yields the next entry
WsIter ==
    /\ ws.pc = "iter"
    /\ IF Len(pending_devices) # ws.n THEN ws' = WsIdle
       ELSE IF ws.i > ws.n
            THEN ws' = WsIdle
            ELSE IF Matches(pending_devices[ws.i], ws.username, ws.request_id)
                 THEN ws' = [ws EXCEPT !.pc = IF ws.event = "request_approved"
                                              THEN "mount" ELSE "del_dev",
                                       !.key = pending_devices[ws.i].key,
                                       !.node = pending_devices[ws.i].device_node]
                 ELSE ws' = [ws EXCEPT !.i = @ + 1]
    /\ UNCHANGED cipher
    /\ out' = NoOut
    /\ UNCHANGED <<users, devices, permissions, requests, clock, h, cresp, present, nevents, ev, pending_requests, pending_devices, inbox, received, conn, rooms, mounts>>

\* on_request_approved: mount_device(device_to_mount['device_node'])
WsMount ==
    /\ ws.pc = "mount"
    /\ Mount(ws.node, "push", ws.key)
    /\ ws' = [ws EXCEPT !.pc = "del_dev"]
    /\ UNCHANGED cipher
    /\ out' = NoOut
    /\ UNCHANGED <<users, devices, permissions, requests, clock, h, cresp, present, nevents, ev, pending_requests, pending_devices, inbox, received, conn, rooms>>

\* a handler that returns after the mount and deletes nothing
WsDelDev_keep ==
    /\ ws.pc = "del_dev"
    /\ ws' = WsIdle
    /\ UNCHANGED cipher
    /\ out' = NoOut
    /\ UNCHANGED <<users, devices, permissions, requests, clock, h, cresp, present, nevents, ev, pending_requests, pending_devices, inbox, received, conn, rooms, mounts>>

\* both handlers: del _pending_devices[device_key_to_remove]
WsDelDev ==
    /\ ws.pc = "del_dev"
    /\ pending_devices' = DelDevice(pending_devices, ws.key)
    /\ ws' = [ws EXCEPT !.pc = "del_req"]
    /\ UNCHANGED cipher
    /\ out' = NoOut
    /\ UNCHANGED <<users, devices, permissions, requests, clock, h, cresp, present, nevents, ev, pending_requests, inbox, received, conn, rooms, mounts>>

\* both handlers: if key in _pending_requests: del _pending_requests[key]
\* (a KeyError between test and del is caught by the handler, nothing follows it)
WsDelReq ==
    /\ ws.pc = "del_req"
    /\ pending_requests' = IF HasKey(pending_requests, ws.key)
                           THEN DelKey(pending_requests, ws.key) ELSE pending_requests
    /\ ws' = WsIdle
    /\ UNCHANGED cipher
    /\ out' = NoOut
    /\ UNCHANGED <<users, devices, permissions, requests, clock, h, cresp, present, nevents, ev, pending_devices, inbox, received, conn, rooms, mounts>>

\* WebSocketClient.connect succeeds; on_connect rejoins current_user, then
\* websocket_thread joins the room of the active user, if there is one
Joined(username) == IF username = None THEN {} ELSE {username}

WtConnect(username) ==
    /\ conn.pc \in {"connecting", "loop"}
    /\ ~conn.connected
    /\ conn' = [pc |-> "loop", attempt |-> 0, connected |-> TRUE,
                current_user |-> IF username = None THEN conn.current_user ELSE username]
    /\ rooms' = Joined(conn.current_user) \cup Joined(username)
    /\ UNCHANGED cipher
    /\ out' = NoOut
    /\ UNCHANGED <<users, devices, permissions, requests, clock, h, cresp, present, nevents, ev, pending_requests, pending_devices, inbox, received, ws, mounts>>

\* WebSocketClient.connect fails; the first max_attempts failures end the thread
WtConnectFail ==
    /\ ~conn.connected
    /\ \/ /\ conn.pc = "connecting"
          /\ conn' = IF conn.attempt + 1 < MaxAttempts
                     THEN [conn EXCEPT !.attempt = @ + 1]
                     ELSE [conn EXCEPT !.attempt = @ + 1, !.pc = "dead"]
    /\ rooms' = rooms
    /\ UNCHANGED cipher
    /\ out' = NoOut
    /\ UNCHANGED <<users, devices, permissions, requests, clock, h, cresp, present, nevents, ev, pending_requests, pending_devices, inbox, received, ws, mounts>>

\* the connection drops: on_disconnect, the server forgets the rooms
WtDisconnect ==
    /\ conn.connected
    /\ conn' = [conn EXCEPT !.connected = FALSE]
    /\ rooms' = {}
    /\ UNCHANGED cipher
    /\ out' = NoOut
    /\ UNCHANGED <<users, devices, permissions, requests, clock, h, cresp, present, nevents, ev, pending_requests, pending_devices, inbox, received, ws, mounts>>

\* ---------------------------------------------------------- specifications
ClientIdle == UNCHANGED <<present, nevents, ev, pending_requests, pending_devices,
                          ws, conn, rooms, mounts>>

\* the server alone: concurrent handlers on the request and permission tables
ServerNext ==
    \E s \in EnvSlots :
        \/ /\ FirstFree(s)
           /\ EnvCreateRequest(s) \/ EnvApprove(s) \/ EnvDeny(s) \/ EnvRemoveUserDevice(s)
           /\ ClientIdle
        \/ HandlerStep(s) /\ ClientIdle

ServerSpec == Init /\ [][ServerNext]_vars

\* the server with create_request, approve and deny only: nobody revokes or
\* grants a permission directly
DecideNext ==
    \E s \in EnvSlots :
        \/ /\ FirstFree(s)
           /\ EnvCreateRequest(s) \/ EnvApprove(s) \/ EnvDeny(s)
           /\ ClientIdle
        \/ HandlerStep(s) /\ ClientIdle

DecideSpec == Init /\ [][DecideNext]_vars

\* the server alone, handlers one at a time
AllIdle == \A s \in Slots : h[s].pc = "idle"

SeqNext ==
    \E s \in EnvSlots :
        \/ AllIdle /\ FirstFree(s) /\ EnvCall(s) /\ ClientIdle
        \/ HandlerStep(s) /\ ClientIdle

SeqSpec == Init /\ [][SeqNext]_vars

\* the permission table on its own: set_permission with either value of
\* granted, remove_permission and check_device, one call at a time
PermCall(s) == EnvSetPermission(s) \/ EnvRemovePermission(s) \/ EnvCheckDevice(s)

PermNext ==
    \E s \in EnvSlots :
        \/ AllIdle /\ FirstFree(s) /\ PermCall(s) /\ ClientIdle
        \/ HandlerStep(s) /\ ClientIdle

PermSpec == Init /\ [][PermNext]_vars

\* the administrator decides on a request of the table, in slot "a"
AdminCall ==
    /\ \E id \in ReqIds :
            BeginAdminCall("a", "approve", id, TRUE) \/ BeginAdminCall("a", "deny", id, TRUE)
    /\ UNCHANGED <<cresp, inbox, received>>
    /\ ClientIdle

\* the permission table under concurrent writers: set_permission with either
\* value of granted, remove_permission, and approve of the requests there are
ApproveCall ==
    /\ \E id \in ReqIds : BeginAdminCall("a", "approve", id, TRUE)
    /\ UNCHANGED <<cresp, inbox, received>>

PermRaceNext ==
    \E s \in EnvSlots :
        \/ /\ FirstFree(s)
           /\ \/ EnvSetPermission(s) \/ EnvRemovePermission(s)
              \/ s = "a" /\ (EnvCreateRequest(s) \/ ApproveCall)
           /\ ClientIdle
        \/ HandlerStep(s) /\ ClientIdle

PermRaceSpec == Init /\ [][PermRaceNext]_vars

\* main(): the next udev event
EvEvent ==
    \/ \E n \in Nodes : EvRemove(n)
    \/ \E n \in Nodes, d \in Devices, username \in Users \cup {None} : EvAdd(n, d, username)

\* main(): the steps of one attach event, with a server that answers
EvAttach ==
    \/ EvCheckError \/ EvCheckSend \/ EvCheckRecv \/ EvCheckDel
    \/ EvCrCheck \/ EvCrReuse \/ EvCrError \/ EvCrSend \/ EvCrRecv
    \/ EvPolicy

SocketThread == WsTake \/ WsIter \/ WsMount \/ WsDelDev \/ WsDelReq

Connection == \E username \in Users : WtConnect(username)

ClientCallSteps == HandlerStep("c") /\ ClientIdle
AdminCallSteps  == HandlerStep("a") /\ ClientIdle

\* the client and the server: the event-consumer thread, the socketio thread,
\* the connection, the handlers of the client's calls and of the administrator
Next ==
    \/ EvEvent \/ EvAttach \/ SocketThread \/ Connection
    \/ AdminCall \/ ClientCallSteps \/ AdminCallSteps

Spec == Init /\ [][Next]_vars

\* the same, with a push handler that runs to its end before main() goes on
PushNext ==
    \/ ws.pc = "idle" /\ (EvEvent \/ EvAttach)
    \/ SocketThread \/ Connection
    \/ AdminCall \/ ClientCallSteps \/ AdminCallSteps

PushSpec == Init /\ [][PushNext]_vars

\* the event-consumer thread and the server, the websocket never connected;
\* answers may be lost, and another client of the same server sends requests too
OtherCall ==
    /\ EnvCreateRequest("a")
    /\ ClientIdle

AttachNext ==
    \/ EvEvent \/ EvAttach \/ EvCheckLost \/ EvCrLost
    \/ AdminCall \/ OtherCall \/ ClientCallSteps \/ AdminCallSteps

AttachSpec == Init /\ [][AttachNext]_vars

\* the event-consumer thread, the server and another client, as in AttachSpec
\* with an administrator who only approves; main() keeps running, every
\* requests.post ends (answer, or timeout) and the handler of the client's
\* call keeps running
RetryNext ==
    \/ EvEvent \/ EvAttach \/ EvCheckLost \/ EvCrLost
    \/ ApproveCall /\ ClientIdle
    \/ OtherCall \/ ClientCallSteps \/ AdminCallSteps

CheckSteps == EvCheckError \/ EvCheckSend \/ EvCheckRecv \/ EvCheckLost \/ EvCheckDel

RetrySpec ==
    /\ Init
    /\ [][RetryNext]_vars
    /\ WF_vars(CheckSteps)
    /\ WF_vars(ClientCallSteps)

\* websocket_thread with a server that is not always reachable, next to main()
\* and the handlers of its calls; no administrator. The thread keeps running,
\* and a connect that stays possible succeeds
AnyConnect == \E username \in Users \cup {None} : WtConnect(username)

ConnNext ==
    \/ AnyConnect \/ WtConnectFail \/ WtDisconnect
    \/ EvEvent
    \/ EvCheckError \/ EvCheckSend \/ EvCheckRecv
    \/ EvCrCheck \/ EvCrReuse \/ EvCrError \/ EvCrSend \/ EvCrRecv
    \/ EvPolicy
    \/ ClientCallSteps

ConnSpec ==
    /\ Init
    /\ [][ConnNext]_vars
    /\ WF_vars(AnyConnect)

\* the cipher objects on their own: construction, encrypt, and decrypt of what
\* encrypt returned
CipherNext ==
    \/ CipherNew \/ CipherEncrypt \/ CipherDecrypt
    \/ CipherRenew \/ CipherAgain
    \/ CipherUnpad
    \/ ManagerSafeDecrypt \/ ManagerEncrypt \/ ManagerDecrypt

CipherSpec == Init /\ [][CipherNext]_vars

\* ------------------------------------------------------------------ claims
\* C1: in every reachable state of the server, with create_request handlers
\* running concurrently, a (user, device) pair has at most one pending request.
C1_OnePendingPerPair ==
    \A u \in Users, d \in Devices : Cardinality(PendingIds(u, d)) <= 1

\* C5: status transitions are one-way: no step changes the status or the
\* processed_at of a request that is already approved or denied.
C5_TerminalIsFinal ==
    [][\A id \in ReqIds :
          requests[id].status # STATUS_PENDING
          => /\ requests'[id].status = requests[id].status
             /\ requests'[id].processed_at = requests[id].processed_at]_vars

\* C6: approve and deny are idempotent on a terminal request: a call that
\* finds the request terminal changes no request row, changes no permission
\* row and sends no push event.
C6_TerminalCallNoEffect ==
    [][\A s \in Slots :
          (h[s].op \in {"approve", "deny"} /\ h[s].terminal0 /\ h'[s] # h[s])
          => /\ requests' = requests
             /\ permissions' = permissions
             /\ out'.emit.event \notin {"request_approved", "request_denied"}]_vars

\* C7: when approve_request has answered 200 (handlers one at a time), the
\* request has status approved, its processed_at is the time of the call, and
\* check_permission of the request's user and device returns True.
C7_ApproveGrants ==
    (out.reply.op = "approve" /\ out.reply.code = 200)
    => LET request == requests[out.emit.request_id] IN
       /\ request.status = STATUS_APPROVED
       /\ request.processed_at = clock
       /\ request.processed_at # 0
       /\ check_permission(request.user, request.device) = "True"

\* C7, reached: approve_request has just answered 200 for a request that is approved
C7_Witness ==
    /\ out.reply.op = "approve"
    /\ out.reply.code = 200
    /\ out.emit.event = "request_approved"
    /\ out.emit.request_id \in ReqIds

\* C8: a create_request that arrives while the pair has a pending request
\* (handlers one at a time) inserts no row, emits no device_request and
\* answers 200 with the id of that pending request.
C8_CreateIdempotent ==
    [][\A s \in Slots :
          (h[s].op = "create_request" /\ h[s].pending0 # {} /\ h'[s] # h[s])
          => /\ requests' = requests
             /\ out'.emit.event # "device_request"
             /\ h'[s].pc = "idle" => /\ out'.reply.code = 200
                                     /\ h[s].pending0 = {out'.reply.request_id}]_vars

\* C8, reached: create_request has just answered with the id of a request
\* that was already pending, and emitted nothing
C8_Witness ==
    /\ out.reply.op = "create_request"
    /\ out.reply.code = 200
    /\ out.emit.event = None
    /\ out.reply.request_id \in ReqIds
    /\ requests[out.reply.request_id].status = STATUS_PENDING

\* the mount_device calls of main() so far, for a device key
AttachMounts(k) == {j \in 1..Len(mounts) : mounts[j].via = "attach" /\ mounts[j].key = k}

\* C2: when all retry_attempts attempts of the check fail, the policy main()
\* gets for that attach event is deny, and handling the event does not call
\* mount_device, also when an earlier check of the same key was allowed.
C2_FailSecure ==
    [][(ev.pc = "policy" /\ ev.attempt = RetryAttempts /\ ev' # ev)
       => /\ Policy(ev.result) = "deny"
          /\ out'.policy.policy = "deny"
          /\ mounts' = mounts]_vars

\* C2, reached: main() has just resolved an attach event to deny after
\* retry_attempts failed attempts, for a key it has mounted on an earlier attach
C2_Witness ==
    /\ out.policy.policy = "deny"
    /\ out.policy.attempt = RetryAttempts
    /\ AttachMounts(out.policy.key) # {}

\* the requests of a pair, and a pair whose requests the administrator has all denied
RequestsOf(u, d) == {i \in ReqIds : requests[i].user = u /\ requests[i].device = d}
DeniedPair(u, d) ==
    /\ RequestsOf(u, d) # {}
    /\ \A i \in RequestsOf(u, d) : requests[i].status = STATUS_DENIED

\* C4: once the administrator has denied the request of a (user, device), a
\* check_device of the client for that pair answers denied.
C4_DeniedIsAnswered ==
    [][(h["c"].op = "check_device" /\ h["c"].pc = "cd_check" /\ h'["c"].pc = "idle"
          /\ DeniedPair(h["c"].user, h["c"].device))
       => out'.reply.status = "denied"]_vars

\* C9: an attach whose check found the server unreachable is handled like a
\* denied one: main() records no pending-device entry for it.
C9_UnreachableRecordsNothing ==
    [][(ev.pc = "policy" /\ ev.result = None /\ ev' # ev)
       => pending_devices' = pending_devices]_vars

\* the push event that tells the approval of the request stored for an entry
ApprovalOf(entry) ==
    [event |-> "request_approved", request_id |-> pending_requests[entry.key],
     username |-> entry.username]

\* C3: one attach of a never-seen device, resolved to unknown, request created:
\* once the approval has been delivered and both threads have nothing left to
\* do, the device node of the attach has been mounted.
C3_ApprovalMounts ==
    (nevents = 1 /\ ev.pc = "idle" /\ ws.pc = "idle" /\ inbox = <<>>)
    => \A j \in 1..Len(pending_devices) :
          (/\ HasKey(pending_requests, pending_devices[j].key)
           /\ ApprovalOf(pending_devices[j]) \in received)
          => \E m \in 1..Len(mounts) : mounts[m].node = pending_devices[j].device_node

\* C10: a request_approved push that matches a pending-device entry when it
\* is received: at the end of its handler mount_device has been called for
\* the entry's device node, and the key is in neither _pending_devices nor
\* _pending_requests.
C10_MatchingPushMounts ==
    [][(ws.pc # "idle" /\ ws'.pc = "idle" /\ ws.event = "request_approved"
          /\ ws.match0 # <<>>)
       => LET entry == Head(ws.match0) IN
          /\ mounts' # <<>>
          /\ mounts'[Len(mounts')] = [node |-> entry.device_node, via |-> "push",
                                      key |-> entry.key]
          /\ \A j \in 1..Len(pending_devices') : pending_devices'[j].key # entry.key
          /\ ~HasKey(pending_requests', entry.key)]_vars

\* C11: a request_denied push that matches a pending-device entry when it is
\* received: at the end of its handler the entry's key is in neither
\* _pending_devices nor _pending_requests, and no step of the handler calls
\* mount_device.
C11_MatchingDenyClears ==
    [][/\ (ws.pc # "idle" /\ ws'.pc = "idle" /\ ws.event = "request_denied"
             /\ ws.match0 # <<>>)
          => LET entry == Head(ws.match0) IN
             /\ \A j \in 1..Len(pending_devices') : pending_devices'[j].key # entry.key
             /\ ~HasKey(pending_requests', entry.key)
       /\ (ws.event = "request_denied" /\ ws' # ws) => mounts' = mounts]_vars

\* C12: when main() has handled the remove event of a device node, no entry of
\* _pending_devices has that node as its device_node.
C12_DetachForgetsNode ==
    [][\A n \in Nodes :
          (n \in present /\ n \notin present')
          => \A j \in 1..Len(pending_devices') : pending_devices'[j].device_node # n]_vars

\* C13: when main() records a pending-device entry for an attach that the
\* server resolved to unknown, _pending_requests holds a request id for the
\* same key.
C13_PendingDeviceHasRequest ==
    [][(ev.pc = "policy" /\ ev.result = "unknown" /\ ev' # ev)
       => LET k == Key(ev.user, ev.device) IN
          (\E j \in 1..Len(pending_devices') : pending_devices'[j].key = k)
          => HasKey(pending_requests', k)]_vars

\* C14: the request id stored for a key is cleared on terminal resolution:
\* when main() has handled the answer of a check that was sent after the
\* stored request was approved or denied, and when a push handler has handled
\* the push of a request id, that id is no longer stored in _pending_requests.
C14_TerminalClearsRequest ==
    [][/\ (ev.stale0 /\ ev.pc \in {"check_wait", "check_del"}
             /\ ev'.pc \in {"cr_check", "policy"} /\ ev'.attempt = ev.attempt)
          => ~HasKey(pending_requests', Key(ev.user, ev.device))
       /\ (ws.pc # "idle" /\ ws'.pc = "idle")
          => \A k \in DOMAIN pending_requests' :
                ~(k[1] = ws.username /\ pending_requests'[k] = ws.request_id)]_vars

\* C15: the two dicts are never accessed by both threads at once: main()
\* neither inserts into nor deletes from them while a push handler is
\* iterating over _pending_devices, and a push handler does not change them
\* between a membership test of main() and the access that depends on it.
C15_NoConcurrentAccess ==
    [][/\ (ws.pc = "iter" /\ ev' # ev)
          => /\ pending_devices' = pending_devices
             /\ pending_requests' = pending_requests
       /\ (ev.pc \in {"check_del", "cr_reuse"} /\ ws' # ws)
          => /\ pending_devices' = pending_devices
             /\ pending_requests' = pending_requests]_vars

\* C16: get_or_create of User and of Device never surfaces the uniqueness
\* error: a handler that missed the lookup and now inserts goes on with the
\* row, it does not end with an error answer.
C16_GetOrCreateTolerant ==
    [][\A s \in Slots :
          (h[s].pc \in {"ins_user", "ins_device"} /\ h'[s] # h[s])
          => /\ h'[s].pc # "idle"
             /\ out'.reply.code # 500]_vars

\* C17: whatever set_permission, approve and remove_permission calls run, one
\* after the other or concurrently, no step leaves two permission rows of one
\* (user, device) pair, and a set_permission that writes on a pair that has a
\* row adds no row and leaves the row with the granted value it was given.
C17_OneRowPerPair ==
    [][\A u \in Users, d \in Devices :
          /\ Cardinality(PermRows(u, d)') <= 1
          /\ \A s \in Slots :
                (/\ h[s].pc = "sp_write" /\ h'[s].pc = "sp_done"
                 /\ h[s].user = u /\ h[s].device = d /\ PermRows(u, d) # {})
                => /\ Cardinality(PermRows(u, d)') = 1
                   /\ \A p \in PermRows(u, d)' : p.granted = h[s].granted]_vars

\* C17, reached: the INSERT of a set_permission that had seen no row has just
\* been rejected by the constraint, while a concurrent set_permission has
\* overwritten the granted value of the only row of the same pair
C17_Witness ==
    /\ out.reply.op \in {"set_permission", "approve"}
    /\ out.reply.code = 500
    /\ \E s \in Slots :
          /\ h[s].pc = "sp_done"
          /\ h[s].existing
          /\ ~h[s].granted
          /\ Cardinality(PermRows(h[s].user, h[s].device)) = 1
          /\ check_permission(h[s].user, h[s].device) = "False"

\* the value check_permission returns for a granted flag
PyBool(granted) == IF granted THEN "True" ELSE "False"

\* C18: with calls made one at a time, check_permission(user, device) follows
\* the last write for the pair: it is None while nothing was set, becomes True
\* or False with a set_permission(.., granted) according to granted, becomes
\* None with a remove_permission, and no other step changes it.
C18_CheckFollowsLastSet ==
    [][\A u \in Users, d \in Devices :
          LET setter  == {s \in Slots : /\ h[s].pc = "sp_write" /\ h'[s] # h[s]
                                        /\ h[s].user = u /\ h[s].device = d}
              remover == {s \in Slots : /\ h[s].pc = "rud_delete" /\ h'[s] # h[s]
                                        /\ h[s].user = u /\ h[s].device = d}
          IN /\ \A s \in setter : check_permission(u, d)' = PyBool(h[s].granted)
             /\ remover # {} => check_permission(u, d)' = None
             /\ (setter = {} /\ remover = {})
                => check_permission(u, d)' = check_permission(u, d)]_vars

\* C18, reached: a set_permission with granted = false has written on a pair
\* that had a row, check_permission of the pair is False, and the other user
\* still has the grant of an earlier set_permission
C18_Witness ==
    \E s \in Slots :
        /\ h[s].op = "set_permission"
        /\ h[s].pc = "sp_done"
        /\ h[s].existing
        /\ ~h[s].granted
        /\ check_permission(h[s].user, h[s].device) = "False"
        /\ \E v \in Users : v # h[s].user /\ check_permission(v, h[s].device) = "True"

\* C19: a check_device call (calls one at a time) ends with the status answer:
\* by then the rows of its user and of its device exist, and the status is
\* allowed exactly when check_permission of the pair is True, denied exactly
\* when it is False, unknown exactly when it is None.
C19_CheckDeviceAnswers ==
    [][\A s \in Slots :
          (h[s].op = "check_device" /\ h[s].pc # "idle" /\ h'[s].pc = "idle")
          => LET permission == check_permission(h[s].user, h[s].device) IN
             /\ h[s].pc = "cd_check"
             /\ out'.reply.code = 200
             /\ h[s].user \in users' /\ h[s].device \in devices'
             /\ permissions' = permissions
             /\ out'.reply.status = "allowed" <=> permission = "True"
             /\ out'.reply.status = "denied"  <=> permission = "False"
             /\ out'.reply.status = "unknown" <=> permission = None]_vars

\* C19, reached: check_device has just answered denied: the pair has a row with
\* granted = false, the only row of users is the one check_device created for
\* the asked user, and the other user holds a grant
C19_Witness ==
    /\ out.reply.op = "check_device"
    /\ out.reply.code = 200
    /\ out.reply.status = "denied"
    /\ Cardinality(users) = 1
    /\ \E p \in permissions : ~p.granted /\ p.user \in users
    /\ \E p \in permissions : p.granted /\ p.user \notin users

\* C20: no step of a check_device, create_request or deny call changes the
\* permissions table, and every step that changes it is a step of an approve,
\* add_user_device or remove_user_device call.
C20_PermissionFrame ==
    [][/\ \A s \in Slots :
             (h[s].op \in {"check_device", "create_request", "deny"} /\ h'[s] # h[s])
             => permissions' = permissions
       /\ permissions' # permissions
          => \E s \in Slots :
                /\ h[s].op \in {"approve", "add_user_device", "remove_user_device"}
                /\ h'[s] # h[s]]_vars

\* C20, reached: deny_request has just answered 200 for a request whose pair
\* holds the grant of an earlier approve, and the grant is still there
C20_Witness ==
    /\ out.reply.op = "deny"
    /\ out.reply.code = 200
    /\ out.emit.request_id \in ReqIds
    /\ check_permission(requests[out.emit.request_id].user,
                        requests[out.emit.request_id].device) = "True"

\* C21: an approve or deny call whose request id is not in the requests table
\* ends at its lookup with the not-found answer 404: the step changes no
\* request row and no permission row, emits nothing and delivers no push.
C21_UnknownIdNotFound ==
    [][\A s \in Slots :
          (h[s].op \in {"approve", "deny"} /\ h[s].id \notin ReqIds /\ h'[s] # h[s])
          => /\ h'[s].pc = "idle"
             /\ out'.reply.code = 404
             /\ out'.emit.event = None
             /\ requests' = requests
             /\ permissions' = permissions
             /\ inbox' = inbox]_vars

\* C21, reached: approve or deny has just answered 404 for an id above the
\* ids of the rows the table holds
C21_Witness ==
    /\ out.reply.op \in {"approve", "deny"}
    /\ out.reply.code = 404
    /\ requests # <<>>

\* C22: a step that emits request_approved or request_denied emits it with
\* the id of a request and the username of that request, to the room of that
\* user and to no other room; the client's connection receives it only if it
\* has joined that room, and receives nothing that was sent to another room.
C22_PushToUserRoomOnly ==
    [][/\ out'.emit.event \in {"request_approved", "request_denied"}
          => LET e == out'.emit IN
             /\ e.request_id \in ReqIds
             /\ e.username = requests'[e.request_id].user
             /\ e.room = UserRoom(e.username)
             /\ e.room # AdminRoom
             /\ \A v \in Users : v # e.username => e.room # UserRoom(v)
             /\ IF e.username \in rooms
                THEN inbox' = Append(inbox, Push(e))
                ELSE inbox' = inbox
       /\ Len(inbox') > Len(inbox)
          => out'.emit.event \in {"request_approved", "request_denied"}]_vars

\* C22, reached: a push for a request of one user has just been emitted while
\* the client's connection is in the room of the other user, and the client
\* has not received it
C22_Witness ==
    /\ out.emit.event \in {"request_approved", "request_denied"}
    /\ rooms # {}
    /\ out.emit.username \notin rooms
    /\ Push(out.emit) \notin received

\* C23: a create_request whose check_existing found no pending request of its
\* pair inserts one row, pending and of its pair, as the last row of the
\* table, then emits one device_request to the admin room with the id and the
\* username of that row and answers with that id; its other steps insert no
\* row, and no other step emits device_request.
C23_CreateInsertsThenEmits ==
    [][/\ \A s \in Slots :
             (h[s].op = "create_request" /\ h'[s] # h[s])
             => CASE h[s].pc = "cr_existing" /\ check_existing(h[s].user, h[s].device) = 0 ->
                       /\ h'[s].pc = "cr_insert"
                       /\ requests' = requests
                       /\ out'.emit.event = None
                  [] h[s].pc = "cr_insert" ->
                       /\ requests' = Append(requests,
                              [user |-> h[s].user, device |-> h[s].device,
                               status |-> STATUS_PENDING, processed_at |-> 0])
                       /\ h'[s].pc = "cr_emit"
                       /\ h'[s].id = Len(requests')
                       /\ out'.emit.event = None
                  [] h[s].pc = "cr_emit" ->
                       /\ requests' = requests
                       /\ requests[h[s].id].user = h[s].user
                       /\ requests[h[s].id].device = h[s].device
                       /\ out'.emit = Event("device_request", AdminRoom, h[s].id, h[s].user)
                       /\ out'.reply.code = 200
                       /\ out'.reply.request_id = h[s].id
                       /\ h'[s].pc = "idle"
                  [] OTHER ->
                       /\ requests' = requests
                       /\ out'.emit.event = None
       /\ out'.emit.event = "device_request"
          => \E s \in Slots : h[s].op = "create_request" /\ h[s].pc = "cr_emit"
                              /\ h'[s].pc = "idle"]_vars

\* C23, reached: create_request has just emitted device_request for a new
\* pending row of a pair whose earlier request was approved or denied
C23_Witness ==
    /\ out.emit.event = "device_request"
    /\ out.emit.room = AdminRoom
    /\ out.reply.code = 200
    /\ out.emit.request_id = 2
    /\ requests[2].status = STATUS_PENDING
    /\ requests[1].status # STATUS_PENDING
    /\ requests[1].user = requests[2].user

\* the positions of main() inside check_device_permission_server
InCheck == ev.pc \in {"check", "check_wait", "check_del"}

\* C24: check_device_permission_server ends after at most retry_attempts
\* attempts: an attempt starts only below retry_attempts; an answer 200 ends
\* the call with the status of that answer and consumes nothing more; a
\* non-200 answer, a lost answer and a network error all consume one attempt
\* and lead to the same place, the next attempt or, after the last one, the
\* result None; and a call that has started always ends.
C24_CheckTerminates ==
    /\ [][/\ ev'.attempt <= RetryAttempts
          /\ ev'.pc \in {"check", "check_wait"} => ev'.attempt < RetryAttempts
          /\ (ev.pc = "check_wait" /\ ev' # ev /\ cresp.code = 200
                /\ ev'.attempt = ev.attempt)
             => /\ ev'.result = cresp.status
                /\ ev'.pc \in {"check_del", "cr_check", "policy"}
          /\ (InCheck /\ ev'.attempt # ev.attempt)
             => /\ ev.pc \in {"check", "check_wait"}
                /\ ev' = IF ev.attempt + 1 < RetryAttempts
                         THEN [ev EXCEPT !.pc = "check", !.attempt = ev.attempt + 1]
                         ELSE [ev EXCEPT !.pc = "policy", !.attempt = RetryAttempts,
                                         !.result = None]
          /\ (ev.pc = "check_wait" /\ ev' # ev /\ cresp.code # 200)
             => ev'.attempt = ev.attempt + 1
          /\ (ev.pc = "check" /\ ev'.pc # "check_wait" /\ ev' # ev)
             => ev'.attempt = ev.attempt + 1]_vars
    /\ InCheck ~> ~InCheck

\* C24, reached: the call has ended with the result None after retry_attempts
\* failed attempts, at least one of which reached the server
C24_Witness ==
    /\ ev.pc = "policy"
    /\ ev.attempt = RetryAttempts
    /\ ev.result = None
    /\ ev.user \in users

\* C25: the notification task retries for ever: whenever the channel is not
\* connected, websocket_thread is still going to call connect, so that with a
\* server that is reachable from some point on the client is connected again.
C25_RetriesForever == (~conn.connected) ~> conn.connected

\* C26: when the attach event of user u resolves to unknown while the channel
\* is connected, main() has the client join the room of u: after the step that
\* records the pending device, the connection is a member of the room of u.
C26_JoinOnUnknown ==
    [][(/\ ev.pc = "policy"
        /\ ev' = EvIdle
        /\ Policy(ev.result) = "unknown"
        /\ conn.connected)
       => ev.user \in rooms']_vars

\* C27: a request_approved or request_denied push that matches no entry of the
\* pending-device table (another username, or a request id that is not the one
\* stored for the entry's key) is dropped: every turn of the handler's loop
\* that does not find such an entry leaves _pending_devices and
\* _pending_requests as they are and mounts nothing, and the handler either
\* goes on to the next entry or returns.
EntryOfPush(e) ==
    /\ e.username = ws.username
    /\ e.key \in DOMAIN pending_requests
    /\ pending_requests[e.key] = ws.request_id

LoopFindsEntry ==
    /\ Len(pending_devices) = ws.n
    /\ ws.i <= ws.n
    /\ EntryOfPush(pending_devices[ws.i])

C27_NoMatchDropped ==
    [][(/\ ws.pc = "iter"
        /\ ws'.pc # "iter" \/ ws'.i # ws.i
        /\ ~LoopFindsEntry)
       => /\ pending_devices' = pending_devices
          /\ pending_requests' = pending_requests
          /\ mounts' = mounts
          /\ ws'.pc \in {"iter", "idle"}]_vars

\* the loop of the handler has been through a table that is not empty without
\* finding an entry of the push, and is about to return
C27_Witness ==
    /\ ws.pc = "iter"
    /\ ws.n >= 1
    /\ ws.i > ws.n
    /\ Len(pending_devices) = ws.n
    /\ \A j \in 1..ws.n : ~EntryOfPush(pending_devices[j])

\* C28: approve and deny called without an admin session answer 401 without
\* starting the handler: no request row and no permission row changes and no
\* push event is emitted; and an answer 401 of approve or deny never comes
\* with a change of a row or with an event.
C28_AdminRequired ==
    [][/\ \A s \in Slots, op \in {"approve", "deny"}, id \in 1..MaxRequests + 1 :
            BeginAdminCall(s, op, id, FALSE)
            => /\ out'.reply.code = 401
               /\ out'.emit = NoEvent
               /\ h' = h
               /\ requests' = requests
               /\ permissions' = permissions
               /\ inbox' = inbox
       /\ (out'.reply.code = 401 /\ out'.reply.op \in {"approve", "deny"})
            => /\ requests' = requests
               /\ permissions' = permissions
               /\ out'.emit = NoEvent
               /\ h' = h]_vars

\* approve or deny has answered 401 while a request was pending
C28_Witness ==
    /\ out.reply.code = 401
    /\ out.reply.op \in {"approve", "deny"}
    /\ \E id \in ReqIds : requests[id].status = STATUS_PENDING

\* C30: round trip: for every byte string P, the empty string and the lengths
\* that are multiples of 8 included, and every valid key, decrypt(encrypt(P))
\* returns P, for the block cipher with PKCS#7 padding and for the stream cipher.
C30_RoundTrip ==
    cipher.pc = "decrypted" => cipher.decrypted = Returned(cipher.plaintext)

\* the block cipher has decrypted what it made of a string of one full block
C30_Witness ==
    /\ cipher.pc = "decrypted"
    /\ cipher.alg = "blowfish"
    /\ Len(cipher.plaintext) = 8
    /\ Len(cipher.ciphertext) = 16
    /\ cipher.decrypted.ok

\* C29: sensitive identifiers are stored only in encrypted form: the text in
\* users.username of every row, and the text in devices.serial of every row
\* with a serial, is what the cipher wrapper makes of the value under some
\* key, and is not the plaintext.
C29_StoredEncrypted ==
    /\ \A u \in users :
          /\ \E key \in BlowfishKeys : username_column(u) = encrypt_username(key, encode(u))
          /\ username_column(u) # encode(u)
    /\ \A d \in devices :
          encode(d) # <<>> =>
              /\ \E key \in RC4Keys : serial_column(d) = encrypt_serial(key, encode(d))
              /\ serial_column(d) # encode(d)

C32_UnpadRejects ==
    (/\ cipher.pc = "unpadded"
     /\ Len(cipher.plaintext) > 0
     /\ LET data == cipher.plaintext
            n == data[Len(data)]
        IN \/ n = 0
           \/ n > Len(data)
           \/ \E i \in 1..n : data[Len(data) - i + 1] # n)
    => cipher.decrypted = Raised

\* a buffer that ends with the bytes 3, 2, 3 has been rejected: its last byte
\* is a possible padding length, one of its last three bytes is not 3
C32_Witness ==
    /\ cipher.pc = "unpadded"
    /\ cipher.decrypted = Raised
    /\ Len(cipher.plaintext) >= 8
    /\ cipher.plaintext[Len(cipher.plaintext)] = 3
    /\ cipher.plaintext[Len(cipher.plaintext) - 1] = 2

\* C33: the safe decrypt variants never raise: they return what the strict
\* variant returns when it succeeds and the argument otherwise, so that a
\* value that was stored without encryption comes back as stored; and the
\* strict variant raises for a text that was made under another key.
C33_SafeDecrypt ==
    cipher.pc = "safe" =>
        /\ cipher.ciphertext = IF cipher.decrypted.ok THEN cipher.decrypted.data
                               ELSE cipher.plaintext
        /\ cipher.plaintext \in LegacyTexts => cipher.ciphertext = cipher.plaintext
        /\ cipher.alg = "blowfish" =>
             \A key \in BlowfishKeys \ {cipher.key}, u \in Users :
                cipher.plaintext = encrypt_username(key, encode(u)) => ~cipher.decrypted.ok
        /\ cipher.alg = "rc4" =>
             \A key \in RC4Keys \ {cipher.key}, d \in Devices :
                cipher.plaintext = encrypt_serial(key, encode(d)) => ~cipher.decrypted.ok

\* C34: wrapper round trip: decrypt_username(encrypt_username(u)) returns u for
\* every username u and decrypt_serial(encrypt_serial(s)) returns s for every
\* serial s, and the empty string passes through both directions unchanged.
C34_WrapperRoundTrip ==
    /\ cipher.pc = "unwrapped" => cipher.decrypted = Returned(cipher.plaintext)
    /\ (cipher.pc \in {"wrapped", "unwrapped"} /\ cipher.plaintext = <<>>)
         => cipher.ciphertext = <<>>
    /\ (cipher.pc \in {"wrapped", "unwrapped"} /\ cipher.plaintext # <<>>)
         => cipher.ciphertext # cipher.plaintext

\* decrypt_username has returned the name of one block that encrypt_username
\* had turned into a base64 text of 24 characters
C34_Witness ==
    /\ cipher.pc = "unwrapped"
    /\ cipher.alg = "blowfish"
    /\ Len(cipher.plaintext) = 8
    /\ Len(cipher.ciphertext) = 24
    /\ cipher.decrypted.ok

\* C35: mount needs a decision of the authority: every call of mount_device is
\* made either by main() for the node of the attach event whose check the
\* server answered with allowed, or by on_request_approved for the node of a
\* pending entry that the request_approved push matched; the result allowed
\* comes only from an answer 200 with status allowed to the check of the
\* event in progress, and the handler reaches its mount only from a turn of
\* its loop that found the entry.
C35_MountNeedsDecision ==
    [][/\ (ev'.result = "allowed" /\ ev.result # "allowed")
            => /\ ev.pc = "check_wait"
               /\ cresp.code = 200
               /\ cresp.status = "allowed"
               /\ ev'.node = ev.node /\ ev'.user = ev.user /\ ev'.device = ev.device
       /\ (ev.result = "allowed" /\ ev'.result = "allowed")
            => ev'.node = ev.node /\ ev'.user = ev.user /\ ev'.device = ev.device
       /\ (ws'.pc = "mount" /\ ws.pc # "mount")
            => /\ ws.pc = "iter"
               /\ ws.event = "request_approved"
               /\ LoopFindsEntry
               /\ ws'.node = pending_devices[ws.i].device_node
               /\ ws'.event = ws.event
       /\ (ws.pc = "mount" /\ ws'.pc = "mount") => ws' = ws
       /\ mounts' # mounts
            => /\ Len(mounts') = Len(mounts) + 1
               /\ SubSeq(mounts', 1, Len(mounts)) = mounts
               /\ LET m == mounts'[Len(mounts')]
                  IN \/ /\ m.via = "attach"
                        /\ ev.pc = "policy"
                        /\ ev.result = "allowed"
                        /\ m.node = ev.node
                        /\ ws' = ws
                     \/ /\ m.via = "push"
                        /\ ws.pc = "mount"
                        /\ ws.event = "request_approved"
                        /\ m.node = ws.node
                        /\ ev' = ev]_vars

\* both paths have mounted: main() after an answer allowed, and the handler of
\* request_approved for a pending entry
C35_Witness ==
    /\ \E i \in 1..Len(mounts) : mounts[i].via = "attach"
    /\ \E i \in 1..Len(mounts) : mounts[i].via = "push"

\* C36: a grant follows the request's final status: with no direct
\* administrative grant, every permission row with granted = TRUE belongs to a
\* (user, device) pair that has a request with status approved; a deny after
\* or during approve of the same request does not leave the request denied
\* and the permission granted.
C36_GrantFollowsStatus ==
    \A p \in permissions :
        p.granted => \E id \in ReqIds : /\ requests[id].user = p.user
                                        /\ requests[id].device = p.device
                                        /\ requests[id].status = STATUS_APPROVED

\* C37: approve is all-or-nothing: when the approve handler ends, with success
\* or with an internal error, the request is not in status approved without a
\* granted permission row of its (user, device) pair; and an approve that ends
\* with an internal error leaves a request that was pending in status pending.
C37_ApproveAllOrNothing ==
    [][\A s \in Slots :
          (/\ h[s].op = "approve"
           /\ h[s].pc # "idle"
           /\ h'[s].pc = "idle"
           /\ h[s].id \in ReqIds)
          => /\ requests'[h[s].id].status = STATUS_APPROVED
                  => \E p \in permissions' : /\ p.user = requests'[h[s].id].user
                                             /\ p.device = requests'[h[s].id].device
                                             /\ p.granted
             /\ (out'.reply.code = 500 /\ ~h[s].terminal0)
                  => requests'[h[s].id].status = STATUS_PENDING]_vars

C40_PendingDeduplicates ==
    [][/\ (ev.pc = "cr_check" /\ ev' # ev
             /\ HasKey(pending_requests, Key(ev.user, ev.device)))
            => /\ ev'.pc = "cr_reuse"
               /\ h' = h
               /\ pending_requests' = pending_requests
       /\ (ev.pc = "cr_reuse" /\ ev' # ev
             /\ HasKey(pending_requests, Key(ev.user, ev.device)))
            => /\ ev'.pc = "policy"
               /\ h' = h
               /\ HasKey(pending_requests', Key(ev.user, ev.device))
               /\ pending_requests'[Key(ev.user, ev.device)]
                    = pending_requests[Key(ev.user, ev.device)]
       /\ (h["c"].pc = "idle" /\ h'["c"].op = "create_request")
            => /\ ev.pc = "cr_send"
               /\ ~HasKey(pending_requests, Key(ev.user, ev.device))
               /\ h'["c"].user = ev.user /\ h'["c"].device = ev.device
       /\ \A k \in DOMAIN pending_requests' :
            (~HasKey(pending_requests, k) \/ pending_requests'[k] # pending_requests[k])
            => /\ ev.pc = "cr_wait"
               /\ k = Key(ev.user, ev.device)
               /\ cresp.code = 200
               /\ cresp.op = "create_request"
               /\ pending_requests'[k] = cresp.request_id]_vars

\* the second attach of a key whose request id is stored has resolved to
\* unknown, and create_device_request is about to return the stored id
C40_Witness ==
    /\ ev.pc = "cr_reuse"
    /\ nevents = 2
    /\ ev.result = "unknown"
    /\ HasKey(pending_requests, Key(ev.user, ev.device))
    /\ pending_requests[Key(ev.user, ev.device)] \in ReqIds
====
